---- MODULE Spec2Model ----
(***************************************************************************)
(* Galactic Roof AI - analytics data processor.                            *)
(*                                                                         *)
(* A model of the analytics processor (reconcilers, prediction dispatcher, *)
(* time aggregator, batch orchestrator) over the relational store it       *)
(* shares with the rest of the application.  Every store operation of a    *)
(* call is one step: the step is the completion callback of the operation, *)
(* and the position of a call (pc) names the operation it is waiting for.  *)
(*                                                                         *)
(* Units.  Timestamps are whole days counted from 2025-01-01 (day 0).      *)
(* Probabilities, margins and variances are thousandths (520 = 0.52 or     *)
(* 52.0 %).  Money is whole dollars.  Text that the code lower-cases or    *)
(* searches is a sequence of one-character strings.  Math.random() is a    *)
(* draw from RandomDraws, in thousandths of [0, 1).                        *)
(*                                                                         *)
(* Not modelled: columns that no operation of the processor reads and no   *)
(* property refers to (customer acquisition_cost and referral_count,       *)
(* project customer_satisfaction_score and weather_impact_score, the       *)
(* affected_zip_codes text, names and addresses).                          *)
(***************************************************************************)
EXTENDS Integers, Sequences, FiniteSets, TLC

\* ------------------------------------------------------------------ bounds
MaxLeads == 2
MaxProjects == 2
MaxCustomers == 2
MaxWeatherEvents == 1
MaxCalls == 2
MaxFailures == 1
MaxTicks == 1
NumSlots == 2

\* A missing (NULL / undefined) number.
NULL == 0 - 1

\* Math.random() representatives, thousandths of [0, 1).
RandomDraws == {0, 900}

\* Days the clock advances in one Tick, and the day the model starts on
\* (2025-08-19, the last day of the sample data).
TickDays == 80
StartDay == 230

Slots == 1..NumSlots

\* ------------------------------------------------------------------ text
UpperChars == <<"A","B","C","D","E","F","G","H","I","J","K","L","M",
                "N","O","P","Q","R","S","T","U","V","W","X","Y","Z">>
LowerChars == <<"a","b","c","d","e","f","g","h","i","j","k","l","m",
                "n","o","p","q","r","s","t","u","v","w","x","y","z">>

LowerChar(ch) ==
  IF \E i \in 1..26 : UpperChars[i] = ch
  THEN LowerChars[CHOOSE i \in 1..26 : UpperChars[i] = ch]
  ELSE ch

\* String.prototype.toLowerCase
ToLowerCase(str) == [i \in 1..Len(str) |-> LowerChar(str[i])]

\* String.prototype.includes
Includes(str, sub) ==
  \E k \in 0..(Len(str) - Len(sub)) :
    \A i \in 1..Len(sub) : str[k + i] = sub[i]

\* The string literals of the code, as sequences of characters.
Literals ==
  [ referral |-> <<"r","e","f","e","r","r","a","l">>,
    website |-> <<"w","e","b","s","i","t","e">>,
    google |-> <<"g","o","o","g","l","e">>,
    facebook |-> <<"f","a","c","e","b","o","o","k">>,
    roof_replacement |-> <<"r","o","o","f"," ","r","e","p","l","a","c","e","m","e","n","t">>,
    replacement |-> <<"r","e","p","l","a","c","e","m","e","n","t">>,
    repair |-> <<"r","e","p","a","i","r">>,
    inspection |-> <<"i","n","s","p","e","c","t","i","o","n">>,
    hail_storm |-> <<"h","a","i","l"," ","s","t","o","r","m">>,
    tornado |-> <<"t","o","r","n","a","d","o">>,
    hurricane |-> <<"h","u","r","r","i","c","a","n","e">>,
    wind_storm |-> <<"w","i","n","d"," ","s","t","o","r","m">>,
    heavy_rain |-> <<"h","e","a","v","y"," ","r","a","i","n">>,
    Unknown |-> <<"U","n","k","n","o","w","n">> ]

\* Values of the columns of the sample rows.
SampleText ==
  [ Website |-> <<"W","e","b","s","i","t","e">>,
    Referral |-> <<"R","e","f","e","r","r","a","l">>,
    Google |-> <<"G","o","o","g","l","e">>,
    Facebook |-> <<"F","a","c","e","b","o","o","k">>,
    Direct |-> <<"D","i","r","e","c","t">>,
    Roof_Inspection |-> <<"R","o","o","f"," ","I","n","s","p","e","c","t","i","o","n">>,
    Storm_Repair |-> <<"S","t","o","r","m"," ","R","E","P","A","I","R">>,
    Roof_Replacement |-> <<"R","o","o","f"," ","R","e","p","l","a","c","e","m","e","n","t">>,
    Leak_Repair |-> <<"L","e","a","k"," ","R","e","p","a","i","r">>,
    Gutter_Cleaning |-> <<"G","u","t","t","e","r"," ","C","l","e","a","n","i","n","g">>,
    Hail_Storm |-> <<"H","a","i","l"," ","S","t","o","r","m">>,
    Tornado |-> <<"T","o","r","n","a","d","o">> ]

\* Further values of the text columns: other letter cases, texts that hold
\* two of the searched words, and a near miss.
ScoreText ==
  [ WEBSITE |-> <<"W","E","B","S","I","T","E">>,
    Replacement_or_Repair |-> <<"R","o","o","f"," ","R","e","p","l","a","c","e","m","e","n","t"," ","o","r"," ","R","e","p","a","i","r">>,
    Repair_Inspection |-> <<"R","e","p","a","i","r"," ","I","n","s","p","e","c","t","i","o","n">>,
    REPLACEMENT |-> <<"R","E","P","L","A","C","E","M","E","N","T">>,
    Repair_then_Replacement |-> <<"R","e","p","a","i","r"," ","t","h","e","n"," ","R","e","p","l","a","c","e","m","e","n","t">>,
    HURRICANE |-> <<"H","U","R","R","I","C","A","N","E">>,
    Heavy_Rain |-> <<"H","e","a","v","y"," ","R","a","i","n">>,
    Hail |-> <<"H","a","i","l">> ]

\* ------------------------------------------------------------------ sets
Max(S) == CHOOSE x \in S : \A y \in S : y <= x
Min(S) == CHOOSE x \in S : \A y \in S : x <= y

\* Rows of a table in rowid order, as db.all returns them without ORDER BY.
RECURSIVE RowsById(_)
RowsById(T) ==
  IF T = {} THEN <<>>
  ELSE LET r == CHOOSE x \in T : \A y \in T : x.id <= y.id
       IN <<r>> \o RowsById(T \ {r})

\* INTEGER PRIMARY KEY AUTOINCREMENT: rows are never deleted, so the next id
\* is one more than the largest id of the table.
LastID(T) == IF T = {} THEN 1 ELSE Max({r.id : r \in T}) + 1

\* The first n elements of a sequence: Array.prototype.slice(0, n).
Slice(seq, n) == SubSeq(seq, 1, IF Len(seq) < n THEN Len(seq) ELSE n)

\* db.get: the first matching row, or undefined.
NoRow == [id |-> NULL]

\* A check that never finds the row.
FirstRowMissed(T) == NoRow

FirstRow(T) == IF T = {} THEN NoRow ELSE CHOOSE r \in T : \A q \in T : r.id <= q.id

\* ---------------------------------------------------------- sample rows
\* The rows the primary tables can hold.  Row 1 of each table is the row
\* database/init.js inserts.
LeadRow(i) ==
  CASE i = 1 -> [id |-> 1, source |-> SampleText.Website, service_interest |-> SampleText.Roof_Inspection,
                 created_at |-> 200]
    [] i = 2 -> [id |-> 2, source |-> <<>>, service_interest |-> SampleText.Storm_Repair,
                 created_at |-> 205]
    [] OTHER -> [id |-> i, source |-> SampleText.Referral, service_interest |-> SampleText.Roof_Replacement,
                 created_at |-> 226]

ProjectRow(i) ==
  CASE i = 1 -> [id |-> 1, customer_id |-> 1, project_type |-> SampleText.Roof_Replacement,
                 start_date |-> 212, end_date |-> NULL, contract_amount |-> 12500,
                 created_at |-> 212]
    [] i = 2 -> [id |-> 2, customer_id |-> 1, project_type |-> SampleText.Leak_Repair,
                 start_date |-> 150, end_date |-> 160, contract_amount |-> 3000,
                 created_at |-> 215]
    [] OTHER -> [id |-> i, customer_id |-> 2, project_type |-> SampleText.Gutter_Cleaning,
                 start_date |-> NULL, end_date |-> NULL, contract_amount |-> 1000,
                 created_at |-> 228]

CustomerRow(i) == [id |-> i]

WeatherEventRow(i) ==
  CASE i = 1 -> [id |-> 1, event_type |-> SampleText.Hail_Storm, severity |-> 42, event_date |-> 195]
    [] OTHER -> [id |-> i, event_type |-> SampleText.Tornado, severity |-> 20, event_date |-> 220]

\* ------------------------------------------------------- scoring functions
Truthy(x) == x # NULL

SourceBonus(source) ==
  IF source = <<>> THEN 0
  ELSE LET l == ToLowerCase(source) IN
       CASE l = Literals.referral -> 20
         [] l = Literals.website -> 15
         [] l = Literals.google -> 10
         [] l = Literals.facebook -> 5
         [] OTHER -> 0

\* An interest bonus that looks for 'repair' first.
InterestBonusRepairFirst(interest) ==
  LET l == ToLowerCase(interest) IN
  IF Includes(l, Literals.repair) THEN 10
  ELSE IF Includes(l, Literals.roof_replacement) THEN 15
  ELSE IF Includes(l, Literals.inspection) THEN 5
  ELSE 0

InterestBonus(interest) ==
  IF interest = <<>> THEN 0
  ELSE LET l == ToLowerCase(interest) IN
       IF Includes(l, Literals.roof_replacement) THEN 15
       ELSE IF Includes(l, Literals.repair) THEN 10
       ELSE IF Includes(l, Literals.inspection) THEN 5
       ELSE 0

LeadScore(lead) ==
  LET leadScore == 50 + SourceBonus(lead.source) + InterestBonus(lead.service_interest)
  IN IF leadScore > 100 THEN 100 ELSE leadScore

AcquisitionSource(lead) == IF lead.source # <<>> THEN lead.source ELSE Literals.Unknown

AcquisitionCost(acquisitionSource) ==
  LET l == ToLowerCase(acquisitionSource) IN
  CASE l = Literals.google -> 75
    [] l = Literals.facebook -> 50
    [] l = Literals.website -> 25
    [] l = Literals.referral -> 100
    [] OTHER -> 40

\* The leadAnalytics object of processLeadData (it has no id yet).
LeadAnalyticsOf(lead) ==
  [id |-> NULL,
   lead_id |-> lead.id,
   acquisition_source |-> AcquisitionSource(lead),
   acquisition_cost |-> AcquisitionCost(AcquisitionSource(lead)),
   lead_score |-> LeadScore(lead),
   conversion_probability |-> LeadScore(lead) * 8,
   days_to_conversion |-> NULL,
   converted_to_customer |-> FALSE,
   conversion_date |-> NULL]

\* A duration estimate that looks for 'repair' first.
EstimatedDurationRepairFirst(project_type) ==
  LET l == ToLowerCase(project_type) IN
  IF Includes(l, Literals.repair) THEN 7
  ELSE IF Includes(l, Literals.replacement) THEN 21
  ELSE 14

EstimatedDuration(project_type) ==
  IF project_type = <<>> THEN 14
  ELSE LET l == ToLowerCase(project_type) IN
       IF Includes(l, Literals.replacement) THEN 21
       ELSE IF Includes(l, Literals.repair) THEN 7
       ELSE 14

Abs(x) == IF x < 0 THEN 0 - x ELSE x

\* A duration that keeps the sign of end_date - start_date.
ActualDurationSigned(project) ==
  IF Truthy(project.start_date) /\ Truthy(project.end_date)
  THEN project.end_date - project.start_date
  ELSE EstimatedDuration(project.project_type)

ActualDuration(project) ==
  IF Truthy(project.start_date) /\ Truthy(project.end_date)
  THEN Abs(project.end_date - project.start_date)
  ELSE EstimatedDuration(project.project_type)

\* n / d in thousandths.  0 / 0 is NaN, which the store keeps as NULL.
Ratio(n, d) == IF d = 0 THEN NULL ELSE (n * 1000) \div d

\* The projectAnalytics object of processProjectData; r is the Math.random()
\* draw of actualCost.  A missing contract_amount counts as 0 in the
\* arithmetic.
ProjectAnalyticsOf(project, r) ==
  LET contractAmount == IF Truthy(project.contract_amount) THEN project.contract_amount ELSE 0
      estimatedCost == (contractAmount * 6) \div 10
      actualCost == (estimatedCost * ((r * 3) \div 10 + 850)) \div 1000
      estimatedDuration == EstimatedDuration(project.project_type)
      actualDuration == ActualDuration(project)
  IN [id |-> NULL,
      project_id |-> project.id,
      estimated_cost |-> estimatedCost,
      actual_cost |-> actualCost,
      cost_variance_percent |-> Ratio(actualCost - estimatedCost, estimatedCost),
      estimated_duration |-> estimatedDuration,
      actual_duration |-> actualDuration,
      duration_variance_percent |-> Ratio(actualDuration - estimatedDuration, estimatedDuration),
      profit_margin |-> Ratio(contractAmount - actualCost, contractAmount)]

\* A total that counts the first project only.
TotalProjectValueOfFirst(ps) ==
  IF ps = <<>> \/ ~Truthy(Head(ps).contract_amount) THEN 0 ELSE Head(ps).contract_amount

RECURSIVE TotalProjectValue(_)
TotalProjectValue(ps) ==
  IF ps = <<>> THEN 0
  ELSE (IF Truthy(Head(ps).contract_amount) THEN Head(ps).contract_amount ELSE 0)
       + TotalProjectValue(Tail(ps))

ProjectDate(p) == IF Truthy(p.end_date) THEN p.end_date ELSE p.start_date

\* projects.reduce((latest, project) => ..., {}) of processCustomerData.
RECURSIVE LastProject(_, _)
LastProject(latest, ps) ==
  IF ps = <<>> THEN latest
  ELSE LET project == Head(ps)
           projectDate == ProjectDate(project)
           latestDate == ProjectDate(latest)
           pick == IF ~Truthy(latestDate) THEN project
                   ELSE IF ~Truthy(projectDate) THEN latest
                   ELSE IF projectDate > latestDate THEN project ELSE latest
       IN LastProject(pick, Tail(ps))

RetentionScore(ps, today) ==
  LET projectCount == Len(ps)
      base == 50 + (IF projectCount > 3 THEN 30 ELSE IF projectCount > 1 THEN 15 ELSE 0)
      lastProjectDate ==
        IF projectCount > 0
        THEN ProjectDate(LastProject([start_date |-> NULL, end_date |-> NULL], ps))
        ELSE NULL
      daysSinceLastProject == today - lastProjectDate
      recency == IF ~Truthy(lastProjectDate) THEN 0
                 ELSE IF daysSinceLastProject < 90 THEN 20
                 ELSE IF daysSinceLastProject < 180 THEN 10
                 ELSE IF daysSinceLastProject > 365 THEN 0 - 10
                 ELSE 0
      score == base + recency
  IN IF score > 100 THEN 100 ELSE IF score < 0 THEN 0 ELSE score

\* The customerAnalytics object of processCustomerData; ps are the customer's
\* projects as the store returned them.
CustomerAnalyticsOf(customer, ps, today) ==
  LET projectCount == Len(ps)
      averageProjectValue ==
        IF projectCount > 0 THEN TotalProjectValue(ps) \div projectCount ELSE 0
      retentionScore == RetentionScore(ps, today)
      churn == 1000 - retentionScore * 9
  IN [id |-> NULL,
      customer_id |-> customer.id,
      lifetime_value |-> (averageProjectValue * projectCount * 13) \div 10,
      retention_score |-> retentionScore,
      churn_probability |-> IF churn < 0 THEN 0 ELSE churn,
      project_count |-> projectCount,
      average_project_value |-> averageProjectValue,
      last_interaction_date |-> today]

\* A multiplier that compares event_type as it is written.
WeatherMultiplierCaseSensitive(event_type) ==
  CASE event_type = Literals.hail_storm -> 5
    [] event_type = Literals.tornado -> 8
    [] event_type = Literals.hurricane -> 10
    [] event_type = Literals.wind_storm -> 4
    [] event_type = Literals.heavy_rain -> 2
    [] OTHER -> 3

WeatherMultiplier(event_type) ==
  LET l == ToLowerCase(event_type) IN
  CASE l = Literals.hail_storm -> 5
    [] l = Literals.tornado -> 8
    [] l = Literals.hurricane -> 10
    [] l = Literals.wind_storm -> 4
    [] l = Literals.heavy_rain -> 2
    [] OTHER -> 3

AvgProjectValue == 8500
ImpactDays == 30

\* The weatherImpactAnalytics object of processWeatherEventData; severity is
\* in tenths.
WeatherImpactAnalyticsOf(weatherEvent) ==
  LET leadsGenerated == (weatherEvent.severity * WeatherMultiplier(weatherEvent.event_type)) \div 10
      projectsCreated == (leadsGenerated * 4) \div 10
  IN [id |-> NULL,
      weather_event_id |-> weatherEvent.id,
      leads_generated |-> leadsGenerated,
      projects_created |-> projectsCreated,
      revenue_impact |-> projectsCreated * AvgProjectValue,
      impact_start_date |-> weatherEvent.event_date,
      impact_end_date |-> weatherEvent.event_date + ImpactDays]

\* ------------------------------------------------------------------ state
VARIABLES
  leads, projects, customers, weather_events,   \* primary tables
  business_metrics,                             \* metrics ledger
  lead_analytics, project_analytics,            \* derived tables
  customer_analytics, weather_impact_analytics,
  predictive_model_results, time_based_aggregates,
  dashboard_configurations,                     \* saved dashboards
  pending,        \* statements issued to the store and not yet completed
  now,            \* the clock, in days
  call,           \* per slot: the call in progress and where it waits
  result,         \* per slot: how the last call of the slot settled
  callsStarted,   \* calls started so far
  failures        \* store failures so far

primary == <<leads, projects, customers, weather_events>>
entityAnalytics ==
  <<lead_analytics, project_analytics, customer_analytics, weather_impact_analytics>>
derived == <<entityAnalytics, predictive_model_results, time_based_aggregates>>
control == <<call, result, callsStarted, failures>>
vars == <<primary, business_metrics, derived, dashboard_configurations, pending, now, control>>

\* A processor that stamps the leads it has looked at.
PrimaryTouched ==
  /\ leads' = {[l EXCEPT !.created_at = now] : l \in leads}
  /\ UNCHANGED <<projects, customers, weather_events>>

\* What a step of the processor does to the primary tables: it has SELECTs
\* on them and no INSERT, UPDATE or DELETE.
PrimaryKept == UNCHANGED primary

NoValue == [id |-> NULL]
NoBatch == [phase |-> "none"]
Idle == [op |-> "idle", pc |-> "idle", cid |-> 0, arg |-> NoValue, loc |-> NoValue,
         ops |-> {}, batch |-> NoBatch]
NoResult == [status |-> "none", op |-> "idle", cid |-> 0, arg |-> NoValue,
             value |-> NoValue, error |-> "", ops |-> {}, run |-> NoBatch]

\* The derived tables are empty and no call is in progress.
InitDerived ==
  /\ business_metrics = {}
  /\ lead_analytics = {}
  /\ project_analytics = {}
  /\ customer_analytics = {}
  /\ weather_impact_analytics = {}
  /\ predictive_model_results = {}
  /\ time_based_aggregates = {}
  /\ dashboard_configurations = {}
  /\ pending = {}
  /\ now = StartDay
  /\ call = [s \in Slots |-> Idle]
  /\ result = [s \in Slots |-> NoResult]
  /\ callsStarted = 0
  /\ failures = 0

\* Each primary table holds one row or more, up to its bound.
Init ==
  /\ \E n \in 1..MaxLeads : leads = {LeadRow(i) : i \in 1..n}
  /\ \E n \in 1..MaxProjects : projects = {ProjectRow(i) : i \in 1..n}
  /\ \E n \in 1..MaxCustomers : customers = {CustomerRow(i) : i \in 1..n}
  /\ \E n \in 1..MaxWeatherEvents : weather_events = {WeatherEventRow(i) : i \in 1..n}
  /\ InitDerived

\* The primary tables hold as many rows as the bounds allow.
InitFull ==
  /\ leads = {LeadRow(i) : i \in 1..MaxLeads}
  /\ projects = {ProjectRow(i) : i \in 1..MaxProjects}
  /\ customers = {CustomerRow(i) : i \in 1..MaxCustomers}
  /\ weather_events = {WeatherEventRow(i) : i \in 1..MaxWeatherEvents}
  /\ InitDerived

\* One kind of entity at a time, with the values its columns can hold: one
\* lead, or one project, or one weather event, or two customers and their
\* projects (project 4 has no contract amount).  Amounts are multiples of
\* ten, so that 60 % of an amount is a whole number.
InitScore ==
  /\ \/ /\ \E source \in {<<>>, SampleText.Referral, ScoreText.WEBSITE, Literals.google,
                          SampleText.Facebook, SampleText.Direct} :
            \E service_interest \in {<<>>, SampleText.Roof_Replacement, SampleText.Storm_Repair,
                                    SampleText.Roof_Inspection, SampleText.Gutter_Cleaning,
                                    ScoreText.Replacement_or_Repair, ScoreText.Repair_Inspection} :
              leads = {[id |-> 1, source |-> source, service_interest |-> service_interest,
                        created_at |-> 200]}
        /\ projects = {} /\ customers = {} /\ weather_events = {}
     \/ /\ \E project_type \in {<<>>, SampleText.Roof_Replacement, SampleText.Leak_Repair,
                                SampleText.Gutter_Cleaning, ScoreText.REPLACEMENT,
                                ScoreText.Repair_then_Replacement} :
            \E contract_amount \in {12500, 3000} :
              \E dates \in {<<NULL, NULL>>, <<212, NULL>>, <<150, 160>>, <<160, 150>>} :
                projects = {[id |-> 1, customer_id |-> 1, project_type |-> project_type,
                             start_date |-> dates[1], end_date |-> dates[2],
                             contract_amount |-> contract_amount, created_at |-> 212]}
        /\ leads = {} /\ customers = {} /\ weather_events = {}
     \/ /\ \E event_type \in {<<>>, SampleText.Hail_Storm, SampleText.Tornado, ScoreText.HURRICANE,
                              Literals.wind_storm, ScoreText.Heavy_Rain, ScoreText.Hail} :
            \E severity \in {42, 25} :
              weather_events = {[id |-> 1, event_type |-> event_type, severity |-> severity,
                                 event_date |-> 195]}
        /\ leads = {} /\ projects = {} /\ customers = {}
     \/ /\ customers = {CustomerRow(1), CustomerRow(2)}
        /\ \E ids \in {{}, {1, 2}, {1, 2, 3}, {3, 4}, {4}} :
            projects = {IF i = 4 THEN [ProjectRow(4) EXCEPT !.contract_amount = NULL]
                        ELSE ProjectRow(i) : i \in ids}
        /\ leads = {} /\ weather_events = {}
  /\ InitDerived

\* ---------------------------------------------------------------- calls
\* The outcomes of one store operation: it succeeds (FALSE) or the store
\* reports an error (TRUE).
StoreErrors == IF failures < MaxFailures THEN {FALSE, TRUE} ELSE {FALSE}

Failed(err) == failures' = failures + (IF err THEN 1 ELSE 0)

\* A client may start a call in slot s.
CanStart(s) == call[s].op = "idle" /\ callsStarted < MaxCalls

\* Calls do not overlap: the caller awaits one call before the next.
Sequential(s) == s = 1 /\ \A t \in Slots : call[t].op = "idle"

NewCall(op) ==
  [op |-> op, pc |-> "idle", cid |-> callsStarted + 1, arg |-> NoValue, loc |-> NoValue,
   ops |-> {}, batch |-> NoBatch]

Read(c, table) == [c EXCEPT !.ops = @ \cup {<<"read", table>>}]
Write(c, table) == [c EXCEPT !.ops = @ \cup {<<"write", table>>}]

\* The first operation of each call, issued when the call is made.
\* processLeadData(lead) issues the existence check.
BeginLead(c, lead) ==
  Read([c EXCEPT !.pc = "lead_check", !.arg = lead, !.loc = NoValue], "lead_analytics")

BeginProject(c, project) ==
  Read([c EXCEPT !.pc = "project_check", !.arg = project, !.loc = NoValue],
       "project_analytics")

\* processCustomerData(customer) first reads the customer's projects.
BeginCustomer(c, customer) ==
  Read([c EXCEPT !.pc = "customer_projects", !.arg = customer, !.loc = NoValue], "projects")

BeginWeatherEvent(c, weatherEvent) ==
  Read([c EXCEPT !.pc = "weather_check", !.arg = weatherEvent, !.loc = NoValue],
       "weather_impact_analytics")

ExpirationDays == 30


\* savePrediction(...) computes the expiration date and issues the existence
\* check on predictive_model_results.
BeginSave(c, estimate, today) ==
  Read([c EXCEPT !.pc = "save_check",
                 !.loc = [row |-> NULL, estimate |-> estimate,
                          expiration |-> today + ExpirationDays]],
       "predictive_model_results")

\* generatePrediction(...) issues the read of the entity.
BeginPrediction(c, modelName, entityType, entityId, predictionType) ==
  Read([c EXCEPT !.pc = "prediction_entity",
                 !.arg = [modelName |-> modelName, entityType |-> entityType,
                          entityId |-> entityId, predictionType |-> predictionType],
                 !.loc = NoValue],
       entityType \o "s")

\* The table a metric is read from.
SourceTable(metricName) ==
  CASE metricName \in {"revenue", "profit"} -> "business_metrics"
    [] metricName = "leads" -> "leads"
    [] metricName = "projects" -> "projects"
    [] metricName = "lead_conversion_rate" -> "lead_analytics"
    [] metricName = "project_profit_margin" -> "project_analytics"
    [] OTHER -> "none"


\* The rows of time_based_aggregates of a metric and level.
AggregatesOf(T, metricName, aggregationLevel) ==
  {r \in T : r.metric_name = metricName /\ r.aggregation_level = aggregationLevel}

\* generateTimeBasedAggregates(...) with supported arguments issues the query.
\* loc.before notes how many rows the metric and level have when the call is
\* made; the code keeps no such count.
BeginAggregates(c, metricName, aggregationLevel) ==
  Read([c EXCEPT !.pc = "aggregates_query",
                 !.arg = [metricName |-> metricName, aggregationLevel |-> aggregationLevel],
                 !.loc = [aggregates |-> <<>>,
                          before |-> Cardinality(AggregatesOf(time_based_aggregates,
                                                              metricName, aggregationLevel))]],
       SourceTable(metricName))

\* ---------------------------------------------------------- processAllData
LeadPredictions == 10
CustomerPredictions == 5
ProjectPredictions == 5

\* The metrics processAllData aggregates, in the order of its calls.
BatchMetrics ==
  <<"revenue", "profit", "leads", "projects", "lead_conversion_rate",
    "project_profit_margin">>

\* The steps of processAllData: 1..4 reconcile the leads, projects, customers
\* and weather events, 5..7 predict for leads, customers and projects, 8..13
\* aggregate BatchMetrics.
LastStep == 7 + Len(BatchMetrics)
Loads(k) == k \in 1..4

NewBatch ==
  [phase |-> 0, idx |-> 0, leads |-> <<>>, projects |-> <<>>, customers |-> <<>>,
   weatherEvents |-> <<>>, steps |-> <<>>, predictions |-> 0, aggregates |-> 0]

\* What step k loops over.
Items(b, k) ==
  CASE k = 1 -> b.leads
    [] k = 2 -> b.projects
    [] k = 3 -> b.customers
    [] k = 4 -> b.weatherEvents
    [] k = 5 -> Slice(b.leads, LeadPredictions)
    [] k = 6 -> Slice(b.customers, CustomerPredictions)
    [] k = 7 -> Slice(b.projects, ProjectPredictions)
    [] OTHER -> <<BatchMetrics[k - 7]>>

LoadedTable(k) ==
  CASE k = 1 -> "leads" [] k = 2 -> "projects" [] k = 3 -> "customers"
    [] OTHER -> "weather_events"

\* The awaited calls, with the churn predictions ahead of the lead
\* predictions.
BeginItemChurnFirst(c, k, item) ==
  CASE k = 1 -> BeginLead(c, item)
    [] k = 2 -> BeginProject(c, item)
    [] k = 3 -> BeginCustomer(c, item)
    [] k = 4 -> BeginWeatherEvent(c, item)
    [] k = 5 -> BeginPrediction(c, "customer_churn_model", "customer", item.id,
                                "churn_probability")
    [] k = 6 -> BeginPrediction(c, "lead_conversion_model", "lead", item.id,
                                "conversion_probability")
    [] k = 7 -> BeginPrediction(c, "project_cost_model", "project", item.id,
                                "cost_overrun_probability")
    [] OTHER -> BeginAggregates(c, item, "monthly")

\* The awaited calls, with the lead predictions taking the place of the
\* lead reconciles and the reconciles the place of the predictions.
BeginItemPredictingFirst(c, k, item) ==
  CASE k = 1 -> BeginPrediction(c, "lead_conversion_model", "lead", item.id,
                                "conversion_probability")
    [] k = 2 -> BeginProject(c, item)
    [] k = 3 -> BeginCustomer(c, item)
    [] k = 4 -> BeginWeatherEvent(c, item)
    [] k = 5 -> BeginLead(c, item)
    [] k = 6 -> BeginPrediction(c, "customer_churn_model", "customer", item.id,
                                "churn_probability")
    [] k = 7 -> BeginPrediction(c, "project_cost_model", "project", item.id,
                                "cost_overrun_probability")
    [] OTHER -> BeginAggregates(c, item, "monthly")

\* The awaited call of item i of step k.
BeginItem(c, k, item) ==
  CASE k = 1 -> BeginLead(c, item)
    [] k = 2 -> BeginProject(c, item)
    [] k = 3 -> BeginCustomer(c, item)
    [] k = 4 -> BeginWeatherEvent(c, item)
    [] k = 5 -> BeginPrediction(c, "lead_conversion_model", "lead", item.id,
                                "conversion_probability")
    [] k = 6 -> BeginPrediction(c, "customer_churn_model", "customer", item.id,
                                "churn_probability")
    [] k = 7 -> BeginPrediction(c, "project_cost_model", "project", item.id,
                                "cost_overrun_probability")
    [] OTHER -> BeginAggregates(c, item, "monthly")

\* processAllData goes on with item i of step k: item 0 of a reconcile step
\* is the SELECT that loads the table; past the last item the next step
\* starts; past the last step the function returns.
RECURSIVE Advance(_, _, _)
Advance(c, k, i) ==
  LET entered == IF c.batch.phase = k THEN c
                 ELSE [c EXCEPT !.batch.phase = k, !.batch.steps = Append(@, k)]
      here == [entered EXCEPT !.batch.idx = i]
  IN IF k > LastStep THEN [c EXCEPT !.pc = "return"]
     ELSE IF Loads(k) /\ i = 0
     THEN Read([here EXCEPT !.pc = "load", !.arg = NoValue, !.loc = NoValue],
               LoadedTable(k))
     ELSE IF i <= Len(Items(here.batch, k))
     THEN BeginItem(here, k, Items(here.batch, k)[i])
     ELSE Advance(entered, k + 1, IF Loads(k + 1) THEN 0 ELSE 1)

\* The object processAllData returns.
Summary(b) ==
  [leadsProcessed |-> Len(b.leads),
   projectsProcessed |-> Len(b.projects),
   customersProcessed |-> Len(b.customers),
   weatherEventsProcessed |-> Len(b.weatherEvents),
   predictionsGenerated |-> LeadPredictions + CustomerPredictions + ProjectPredictions,
   aggregatesGenerated |-> Len(BatchMetrics)]

\* The awaited call of processAllData resolved: count it and go on.
Counted(c) ==
  IF c.batch.phase \in 5..7 THEN [c EXCEPT !.batch.predictions = @ + 1]
  ELSE IF c.batch.phase > 7 THEN [c EXCEPT !.batch.aggregates = @ + 1]
  ELSE c

\* --------------------------------------------------------------- settling
\* The promise of call c settles: resolve(val) when ok, reject(err) otherwise.
\* run keeps what a processAllData call had done when it settled.
Settled(c, ok, val, err) ==
  [status |-> IF ok THEN "resolved" ELSE "rejected", op |-> c.op, cid |-> c.cid,
   arg |-> c.arg, value |-> IF ok THEN val ELSE NoValue,
   error |-> IF ok THEN "" ELSE err, ops |-> c.ops, run |-> c.batch]

\* A processAllData that catches the error of an awaited call and goes on
\* with the next item.
OutcomeGoingOn(c, keep, ok, val, err) ==
  IF c.op = "processAllData"
  THEN LET next == Advance(IF ok THEN Counted(c) ELSE c, c.batch.phase, c.batch.idx + 1) IN
       IF next.pc = "return"
       THEN [call |-> Idle, result |-> Settled(next, TRUE, Summary(next.batch), "")]
       ELSE [call |-> next, result |-> keep]
  ELSE [call |-> Idle, result |-> Settled(c, ok, val, err)]

\* A call of the client settles its promise.  Inside processAllData the call
\* is awaited: when it resolves the run goes on (keep is the result of the
\* slot, untouched), when it rejects the run rejects with the same error.
Outcome(c, keep, ok, val, err) ==
  IF c.op = "processAllData" /\ ok
  THEN LET next == Advance(Counted(c), c.batch.phase, c.batch.idx + 1) IN
       IF next.pc = "return"
       THEN [call |-> Idle, result |-> Settled(next, TRUE, Summary(next.batch), "")]
       ELSE [call |-> next, result |-> keep]
  ELSE [call |-> Idle, result |-> Settled(c, ok, val, err)]

Settle(s, c, ok, val, err) ==
  LET out == Outcome(c, result[s], ok, val, err) IN
  /\ call' = [call EXCEPT ![s] = out.call]
  /\ result' = [result EXCEPT ![s] = out.result]

processAllData(s) ==
  /\ CanStart(s)
  /\ call' = [call EXCEPT ![s] =
       Advance([NewCall("processAllData") EXCEPT !.batch = NewBatch], 1, 0)]
  /\ result' = [result EXCEPT ![s] = NoResult]
  /\ callsStarted' = callsStarted + 1
  /\ PrimaryKept /\ UNCHANGED <<dashboard_configurations, business_metrics, derived, pending, now, failures>>

\* The callback of SELECT * FROM <table>: resolve(rows || []).
Loaded(b, k) ==
  CASE k = 1 -> [b EXCEPT !.leads = RowsById(leads)]
    [] k = 2 -> [b EXCEPT !.projects = RowsById(projects)]
    [] k = 3 -> [b EXCEPT !.customers = RowsById(customers)]
    [] OTHER -> [b EXCEPT !.weatherEvents = RowsById(weather_events)]

processAllData_load(s) ==
  /\ call[s].pc = "load"
  /\ \E err \in StoreErrors :
       /\ Failed(err)
       /\ IF err
          THEN Settle(s, call[s], FALSE, NoValue, "store_error")
          ELSE LET k == call[s].batch.phase
                   c == [call[s] EXCEPT !.batch = Loaded(@, k)]
                   out == Outcome([c EXCEPT !.batch.idx = 0], result[s], TRUE, NoValue, "")
               IN /\ call' = [call EXCEPT ![s] = out.call]
                  /\ result' = [result EXCEPT ![s] = out.result]
  /\ PrimaryKept /\ UNCHANGED <<dashboard_configurations, business_metrics, derived, pending, now, callsStarted>>

\* ---------------------------------------------------------- processLeadData
\* An UPDATE that writes every column of the new record.
UpdateLeadAnalyticsAllColumns(T, a) ==
  {IF r.lead_id = a.lead_id THEN [a EXCEPT !.id = r.id] ELSE r : r \in T}

UpdateLeadAnalytics(T, a) ==
  {IF r.lead_id = a.lead_id
   THEN [r EXCEPT !.acquisition_source = a.acquisition_source,
                  !.acquisition_cost = a.acquisition_cost,
                  !.lead_score = a.lead_score,
                  !.conversion_probability = a.conversion_probability]
   ELSE r : r \in T}

\* An INSERT under a unique lead_id: a second row for a lead is not stored.
InsertLeadAnalyticsOnce(T, a) ==
  IF \E r \in T : r.lead_id = a.lead_id THEN T ELSE T \cup {[a EXCEPT !.id = LastID(T)]}

InsertLeadAnalytics(T, a) == T \cup {[a EXCEPT !.id = LastID(T)]}

processLeadData(s, lead) ==
  /\ CanStart(s)
  /\ call' = [call EXCEPT ![s] = BeginLead(NewCall("processLeadData"), lead)]
  /\ result' = [result EXCEPT ![s] = NoResult]
  /\ callsStarted' = callsStarted + 1
  /\ PrimaryKept /\ UNCHANGED <<dashboard_configurations, business_metrics, derived, pending, now, failures>>

\* The callback of SELECT id FROM lead_analytics WHERE lead_id = ?
processLeadData_check(s) ==
  /\ call[s].pc = "lead_check"
  /\ \E err \in StoreErrors :
       /\ Failed(err)
       /\ IF err
          THEN Settle(s, call[s], FALSE, NoValue, "store_error")
          ELSE LET row == FirstRow({r \in lead_analytics : r.lead_id = call[s].arg.id})
                   c == [call[s] EXCEPT !.pc = "lead_write",
                           !.loc = [row |-> row.id, analytics |-> LeadAnalyticsOf(call[s].arg)]]
               IN /\ call' = [call EXCEPT ![s] = Write(c, "lead_analytics")]
                  /\ UNCHANGED result
  /\ PrimaryKept /\ UNCHANGED <<dashboard_configurations, business_metrics, derived, pending, now, callsStarted>>

\* The callback of the UPDATE or of the INSERT.
processLeadData_write(s) ==
  /\ call[s].pc = "lead_write"
  /\ \E err \in StoreErrors :
       /\ Failed(err)
       /\ LET a == call[s].loc.analytics IN
          IF err
          THEN /\ Settle(s, call[s], FALSE, NoValue, "store_error")
               /\ UNCHANGED lead_analytics
          ELSE IF call[s].loc.row # NULL
          THEN /\ lead_analytics' = UpdateLeadAnalytics(lead_analytics, a)
               /\ Settle(s, call[s], TRUE, a, "")
          ELSE /\ lead_analytics' = InsertLeadAnalytics(lead_analytics, a)
               /\ Settle(s, call[s], TRUE, [a EXCEPT !.id = LastID(lead_analytics)], "")
  /\ PrimaryKept /\ UNCHANGED <<dashboard_configurations, business_metrics, project_analytics, customer_analytics,
                 weather_impact_analytics, predictive_model_results,
                 time_based_aggregates, pending, now, callsStarted>>

\* ------------------------------------------------------- processProjectData
UpdateProjectAnalytics(T, a) ==
  {IF r.project_id = a.project_id
   THEN [r EXCEPT !.estimated_cost = a.estimated_cost,
                  !.actual_cost = a.actual_cost,
                  !.cost_variance_percent = a.cost_variance_percent,
                  !.estimated_duration = a.estimated_duration,
                  !.actual_duration = a.actual_duration,
                  !.duration_variance_percent = a.duration_variance_percent,
                  !.profit_margin = a.profit_margin]
   ELSE r : r \in T}

\* created_at is the column default, CURRENT_TIMESTAMP.
InsertProjectAnalytics(T, a, today) ==
  T \cup {[id |-> LastID(T), project_id |-> a.project_id,
           estimated_cost |-> a.estimated_cost, actual_cost |-> a.actual_cost,
           cost_variance_percent |-> a.cost_variance_percent,
           estimated_duration |-> a.estimated_duration,
           actual_duration |-> a.actual_duration,
           duration_variance_percent |-> a.duration_variance_percent,
           profit_margin |-> a.profit_margin, created_at |-> today]}

processProjectData(s, project) ==
  /\ CanStart(s)
  /\ call' = [call EXCEPT ![s] = BeginProject(NewCall("processProjectData"), project)]
  /\ result' = [result EXCEPT ![s] = NoResult]
  /\ callsStarted' = callsStarted + 1
  /\ PrimaryKept /\ UNCHANGED <<dashboard_configurations, business_metrics, derived, pending, now, failures>>

processProjectData_check(s) ==
  /\ call[s].pc = "project_check"
  /\ \E err \in StoreErrors :
       /\ Failed(err)
       /\ IF err
          THEN Settle(s, call[s], FALSE, NoValue, "store_error")
          ELSE \E r \in RandomDraws :
                 LET row == FirstRow({q \in project_analytics : q.project_id = call[s].arg.id})
                     c == [call[s] EXCEPT !.pc = "project_write",
                             !.loc = [row |-> row.id,
                                      analytics |-> ProjectAnalyticsOf(call[s].arg, r)]]
                 IN /\ call' = [call EXCEPT ![s] = Write(c, "project_analytics")]
                    /\ UNCHANGED result
  /\ PrimaryKept /\ UNCHANGED <<dashboard_configurations, business_metrics, derived, pending, now, callsStarted>>

processProjectData_write(s) ==
  /\ call[s].pc = "project_write"
  /\ \E err \in StoreErrors :
       /\ Failed(err)
       /\ LET a == call[s].loc.analytics IN
          IF err
          THEN /\ Settle(s, call[s], FALSE, NoValue, "store_error")
               /\ UNCHANGED project_analytics
          ELSE IF call[s].loc.row # NULL
          THEN /\ project_analytics' = UpdateProjectAnalytics(project_analytics, a)
               /\ Settle(s, call[s], TRUE, a, "")
          ELSE /\ project_analytics' = InsertProjectAnalytics(project_analytics, a, now)
               /\ Settle(s, call[s], TRUE, [a EXCEPT !.id = LastID(project_analytics)], "")
  /\ PrimaryKept /\ UNCHANGED <<dashboard_configurations, business_metrics, lead_analytics, customer_analytics,
                 weather_impact_analytics, predictive_model_results,
                 time_based_aggregates, pending, now, callsStarted>>

\* ------------------------------------------------------ processCustomerData
\* An UPDATE that leaves one row per customer: the rows after the first are
\* removed.
UpdateCustomerAnalyticsMerging(T, a) ==
  LET mine == {r \in T : r.customer_id = a.customer_id}
      first == FirstRow(mine)
  IN (T \ mine) \cup
     (IF mine = {} THEN {}
      ELSE {[first EXCEPT !.lifetime_value = a.lifetime_value,
                          !.retention_score = a.retention_score,
                          !.churn_probability = a.churn_probability,
                          !.project_count = a.project_count,
                          !.average_project_value = a.average_project_value,
                          !.last_interaction_date = a.last_interaction_date]})

UpdateCustomerAnalytics(T, a) ==
  {IF r.customer_id = a.customer_id
   THEN [r EXCEPT !.lifetime_value = a.lifetime_value,
                  !.retention_score = a.retention_score,
                  !.churn_probability = a.churn_probability,
                  !.project_count = a.project_count,
                  !.average_project_value = a.average_project_value,
                  !.last_interaction_date = a.last_interaction_date]
   ELSE r : r \in T}

InsertCustomerAnalytics(T, a) == T \cup {[a EXCEPT !.id = LastID(T)]}

processCustomerData(s, customer) ==
  /\ CanStart(s)
  /\ call' = [call EXCEPT ![s] = BeginCustomer(NewCall("processCustomerData"), customer)]
  /\ result' = [result EXCEPT ![s] = NoResult]
  /\ callsStarted' = callsStarted + 1
  /\ PrimaryKept /\ UNCHANGED <<dashboard_configurations, business_metrics, derived, pending, now, failures>>

\* The callback of SELECT * FROM projects WHERE customer_id = ?
processCustomerData_projects(s) ==
  /\ call[s].pc = "customer_projects"
  /\ \E err \in StoreErrors :
       /\ Failed(err)
       /\ IF err
          THEN Settle(s, call[s], FALSE, NoValue, "store_error")
          ELSE LET ps == RowsById({p \in projects : p.customer_id = call[s].arg.id})
                   c == [call[s] EXCEPT !.pc = "customer_check",
                           !.loc = [row |-> NULL,
                                    analytics |-> CustomerAnalyticsOf(call[s].arg, ps, now)]]
               IN /\ call' = [call EXCEPT ![s] = Read(c, "customer_analytics")]
                  /\ UNCHANGED result
  /\ PrimaryKept /\ UNCHANGED <<dashboard_configurations, business_metrics, derived, pending, now, callsStarted>>

\* The callback of SELECT id FROM customer_analytics WHERE customer_id = ?
processCustomerData_check(s) ==
  /\ call[s].pc = "customer_check"
  /\ \E err \in StoreErrors :
       /\ Failed(err)
       /\ IF err
          THEN Settle(s, call[s], FALSE, NoValue, "store_error")
          ELSE LET row == FirstRow({r \in customer_analytics :
                                     r.customer_id = call[s].arg.id})
                   c == [call[s] EXCEPT !.pc = "customer_write", !.loc.row = row.id]
               IN /\ call' = [call EXCEPT ![s] = Write(c, "customer_analytics")]
                  /\ UNCHANGED result
  /\ PrimaryKept /\ UNCHANGED <<dashboard_configurations, business_metrics, derived, pending, now, callsStarted>>

processCustomerData_write(s) ==
  /\ call[s].pc = "customer_write"
  /\ \E err \in StoreErrors :
       /\ Failed(err)
       /\ LET a == call[s].loc.analytics IN
          IF err
          THEN /\ Settle(s, call[s], FALSE, NoValue, "store_error")
               /\ UNCHANGED customer_analytics
          ELSE IF call[s].loc.row # NULL
          THEN /\ customer_analytics' = UpdateCustomerAnalytics(customer_analytics, a)
               /\ Settle(s, call[s], TRUE, a, "")
          ELSE /\ customer_analytics' = InsertCustomerAnalytics(customer_analytics, a)
               /\ Settle(s, call[s], TRUE, [a EXCEPT !.id = LastID(customer_analytics)], "")
  /\ PrimaryKept /\ UNCHANGED <<dashboard_configurations, business_metrics, lead_analytics, project_analytics,
                 weather_impact_analytics, predictive_model_results,
                 time_based_aggregates, pending, now, callsStarted>>

\* -------------------------------------------------- processWeatherEventData
UpdateWeatherImpactAnalytics(T, a) ==
  {IF r.weather_event_id = a.weather_event_id
   THEN [r EXCEPT !.leads_generated = a.leads_generated,
                  !.projects_created = a.projects_created,
                  !.revenue_impact = a.revenue_impact,
                  !.impact_start_date = a.impact_start_date,
                  !.impact_end_date = a.impact_end_date]
   ELSE r : r \in T}

InsertWeatherImpactAnalytics(T, a) == T \cup {[a EXCEPT !.id = LastID(T)]}

processWeatherEventData(s, weatherEvent) ==
  /\ CanStart(s)
  /\ call' = [call EXCEPT ![s] =
                BeginWeatherEvent(NewCall("processWeatherEventData"), weatherEvent)]
  /\ result' = [result EXCEPT ![s] = NoResult]
  /\ callsStarted' = callsStarted + 1
  /\ PrimaryKept /\ UNCHANGED <<dashboard_configurations, business_metrics, derived, pending, now, failures>>

processWeatherEventData_check(s) ==
  /\ call[s].pc = "weather_check"
  /\ \E err \in StoreErrors :
       /\ Failed(err)
       /\ IF err
          THEN Settle(s, call[s], FALSE, NoValue, "store_error")
          ELSE LET row == FirstRow({r \in weather_impact_analytics :
                                     r.weather_event_id = call[s].arg.id})
                   c == [call[s] EXCEPT !.pc = "weather_write",
                           !.loc = [row |-> row.id,
                                    analytics |-> WeatherImpactAnalyticsOf(call[s].arg)]]
               IN /\ call' = [call EXCEPT ![s] = Write(c, "weather_impact_analytics")]
                  /\ UNCHANGED result
  /\ PrimaryKept /\ UNCHANGED <<dashboard_configurations, business_metrics, derived, pending, now, callsStarted>>

processWeatherEventData_write(s) ==
  /\ call[s].pc = "weather_write"
  /\ \E err \in StoreErrors :
       /\ Failed(err)
       /\ LET a == call[s].loc.analytics IN
          IF err
          THEN /\ Settle(s, call[s], FALSE, NoValue, "store_error")
               /\ UNCHANGED weather_impact_analytics
          ELSE IF call[s].loc.row # NULL
          THEN /\ weather_impact_analytics' =
                    UpdateWeatherImpactAnalytics(weather_impact_analytics, a)
               /\ Settle(s, call[s], TRUE, a, "")
          ELSE /\ weather_impact_analytics' =
                    InsertWeatherImpactAnalytics(weather_impact_analytics, a)
               /\ Settle(s, call[s], TRUE,
                         [a EXCEPT !.id = LastID(weather_impact_analytics)], "")
  /\ PrimaryKept /\ UNCHANGED <<dashboard_configurations, business_metrics, lead_analytics, project_analytics,
                 customer_analytics, predictive_model_results,
                 time_based_aggregates, pending, now, callsStarted>>

Prediction(modelName, entityType, entityId, predictionType, value, confidence, features, date, expiration) ==
  [id |-> NULL, model_name |-> modelName, entity_type |-> entityType,
   entity_id |-> entityId, prediction_type |-> predictionType,
   prediction_value |-> value, confidence_score |-> confidence,
   features_used |-> features, prediction_date |-> date, expiration_date |-> expiration]

\* ------------------------------------------------------- generatePrediction
\* The case the switch on `${modelName}_${predictionType}` selects.
Strategy(modelName, predictionType) ==
  LET key == modelName \o "_" \o predictionType IN
  CASE key = "lead_conversion_model_conversion_probability" -> "lead_analytics"
    [] key = "customer_churn_model_churn_probability" -> "customer_analytics"
    [] key = "project_cost_model_cost_overrun_probability" -> "project_analytics"
    [] OTHER -> "generic"

\* A read of the entity's table that leaves out WHERE id = ?.
EntityRowsAnyId(entityType, entityId) ==
  CASE entityType = "lead" -> leads
    [] entityType = "customer" -> customers
    [] entityType = "project" -> projects
    [] OTHER -> {}

\* SELECT * FROM ${entityType}s WHERE id = ?
EntityRows(entityType, entityId) ==
  CASE entityType = "lead" -> {e \in leads : e.id = entityId}
    [] entityType = "customer" -> {e \in customers : e.id = entityId}
    [] entityType = "project" -> {e \in projects : e.id = entityId}
    [] OTHER -> {}

\* The analytics row a named strategy reads: WHERE <kind>_id = entityId.
AnalyticsRows(strategy, entityId) ==
  CASE strategy = "lead_analytics" -> {r \in lead_analytics : r.lead_id = entityId}
    [] strategy = "customer_analytics" -> {r \in customer_analytics : r.customer_id = entityId}
    [] strategy = "project_analytics" -> {r \in project_analytics : r.project_id = entityId}
    [] OTHER -> {}

\* An estimate whose churn case kept the confidence of the lead case.
EstimateWithOneConfidence(strategy, found, row, r) ==
  CASE strategy = "lead_analytics" ->
         IF found
         THEN [value |-> row.conversion_probability, confidence |-> 800,
               features |-> {"lead_score", "acquisition_source", "service_interest"}]
         ELSE [value |-> (r * 7) \div 10 + 100, confidence |-> 600,
               features |-> {"basic_lead_info"}]
    [] strategy = "customer_analytics" ->
         IF found
         THEN [value |-> row.churn_probability, confidence |-> 800,
               features |-> {"retention_score", "project_count", "lifetime_value",
                             "last_interaction_date"}]
         ELSE [value |-> (r * 4) \div 10 + 100, confidence |-> 600,
               features |-> {"basic_customer_info"}]
    [] strategy = "project_analytics" ->
         IF found
         THEN [value |-> IF row.cost_variance_percent > 0 THEN 700 ELSE 300,
               confidence |-> 800,
               features |-> {"estimated_cost", "project_type", "historical_variance"}]
         ELSE [value |-> (r * 5) \div 10 + 200, confidence |-> 700,
               features |-> {"basic_project_info"}]
    [] OTHER ->
         [value |-> r, confidence |-> 500, features |-> {"generic_features"}]

\* predictionValue, confidenceScore and featuresUsed of a named strategy:
\* from the analytics row when the read returned one, else a random estimate
\* (r is the Math.random() draw).
Estimate(strategy, found, row, r) ==
  CASE strategy = "lead_analytics" ->
         IF found
         THEN [value |-> row.conversion_probability, confidence |-> 800,
               features |-> {"lead_score", "acquisition_source", "service_interest"}]
         ELSE [value |-> (r * 7) \div 10 + 100, confidence |-> 600,
               features |-> {"basic_lead_info"}]
    [] strategy = "customer_analytics" ->
         IF found
         THEN [value |-> row.churn_probability, confidence |-> 850,
               features |-> {"retention_score", "project_count", "lifetime_value",
                             "last_interaction_date"}]
         ELSE [value |-> (r * 4) \div 10 + 100, confidence |-> 600,
               features |-> {"basic_customer_info"}]
    [] strategy = "project_analytics" ->
         IF found
         THEN [value |-> IF row.cost_variance_percent > 0 THEN 700 ELSE 300,
               confidence |-> 800,
               features |-> {"estimated_cost", "project_type", "historical_variance"}]
         ELSE [value |-> (r * 5) \div 10 + 200, confidence |-> 700,
               features |-> {"basic_project_info"}]
    [] OTHER ->
         [value |-> r, confidence |-> 500, features |-> {"generic_features"}]

generatePrediction(s, modelName, entityType, entityId, predictionType) ==
  /\ CanStart(s)
  /\ call' = [call EXCEPT ![s] =
       BeginPrediction(NewCall("generatePrediction"), modelName, entityType, entityId,
                       predictionType)]
  /\ result' = [result EXCEPT ![s] = NoResult]
  /\ callsStarted' = callsStarted + 1
  /\ PrimaryKept /\ UNCHANGED <<dashboard_configurations, business_metrics, derived, pending, now, failures>>

\* The callback of the read of the entity.
generatePrediction_entity(s) ==
  /\ call[s].pc = "prediction_entity"
  /\ \E err \in StoreErrors :
       /\ Failed(err)
       /\ LET a == call[s].arg
              strategy == Strategy(a.modelName, a.predictionType)
          IN IF err
             THEN Settle(s, call[s], FALSE, NoValue, "store_error")
             ELSE IF EntityRows(a.entityType, a.entityId) = {}
             THEN Settle(s, call[s], FALSE, NoValue, "not_found")
             ELSE IF strategy # "generic"
             THEN /\ call' = [call EXCEPT ![s] =
                       Read([call[s] EXCEPT !.pc = "prediction_analytics"], strategy)]
                  /\ UNCHANGED result
             ELSE \E r \in RandomDraws :
                    /\ call' = [call EXCEPT ![s] =
                         BeginSave(call[s], Estimate(strategy, FALSE, NoRow, r), now)]
                    /\ UNCHANGED result
  /\ PrimaryKept /\ UNCHANGED <<dashboard_configurations, business_metrics, derived, pending, now, callsStarted>>

\* A test of the row alone: if (!row).
AnalyticsFoundWhateverTheError(err, row) == row.id # NULL

\* The test of the callback of the analytics read, negated: if (err || !row).
AnalyticsFound(err, row) == ~err /\ row.id # NULL

\* The callback went on after a failed read of table (a note in the log of
\* the call, next to the operations it issued).
Absorbed(c, err, table) ==
  IF err THEN [c EXCEPT !.ops = @ \cup {<<"failed", table>>}] ELSE c

\* The callback of the read of the entity's analytics row.
generatePrediction_analytics(s) ==
  /\ call[s].pc = "prediction_analytics"
  /\ \E err \in StoreErrors :
       /\ Failed(err)
       /\ LET a == call[s].arg
              strategy == Strategy(a.modelName, a.predictionType)
              row == FirstRow(AnalyticsRows(strategy, a.entityId))
              found == AnalyticsFound(err, row)
          IN \E r \in (IF found THEN {0} ELSE RandomDraws) :
               call' = [call EXCEPT ![s] =
                 BeginSave(Absorbed(call[s], err, strategy),
                           Estimate(strategy, found, row, r), now)]
  /\ PrimaryKept /\ UNCHANGED <<dashboard_configurations, business_metrics, derived, pending, now, result, callsStarted>>

SameKey(row, a) ==
  /\ row.model_name = a.modelName
  /\ row.entity_type = a.entityType
  /\ row.entity_id = a.entityId
  /\ row.prediction_type = a.predictionType

\* The prediction object of savePrediction.
PredictionOf(a, loc, today) ==
  Prediction(a.modelName, a.entityType, a.entityId, a.predictionType,
             loc.estimate.value, loc.estimate.confidence, loc.estimate.features,
             today, loc.expiration)

\* UPDATE predictive_model_results SET ... WHERE id = ?
\* An UPDATE that leaves the dates of the row as they were.
UpdatePredictionValueOnly(T, id, p) ==
  {IF r.id = id
   THEN [r EXCEPT !.prediction_value = p.prediction_value,
                  !.confidence_score = p.confidence_score,
                  !.features_used = p.features_used]
   ELSE r : r \in T}

UpdatePrediction(T, id, p) ==
  {IF r.id = id
   THEN [r EXCEPT !.prediction_value = p.prediction_value,
                  !.confidence_score = p.confidence_score,
                  !.features_used = p.features_used,
                  !.prediction_date = p.prediction_date,
                  !.expiration_date = p.expiration_date]
   ELSE r : r \in T}

InsertPrediction(T, p) == T \cup {[p EXCEPT !.id = LastID(T)]}

\* The callback of the existence check of savePrediction.
savePrediction_check(s) ==
  /\ call[s].pc = "save_check"
  /\ \E err \in StoreErrors :
       /\ Failed(err)
       /\ IF err
          THEN Settle(s, call[s], FALSE, NoValue, "store_error")
          ELSE LET row == FirstRow({r \in predictive_model_results : SameKey(r, call[s].arg)})
                   c == [call[s] EXCEPT !.pc = "save_write",
                           !.loc = [@ EXCEPT !.row = row.id] @@
                                   [prediction |-> PredictionOf(call[s].arg, @, now)]]
               IN /\ call' = [call EXCEPT ![s] = Write(c, "predictive_model_results")]
                  /\ UNCHANGED result
  /\ PrimaryKept /\ UNCHANGED <<dashboard_configurations, business_metrics, derived, pending, now, callsStarted>>

\* The callback of the UPDATE or of the INSERT of savePrediction.
savePrediction_write(s) ==
  /\ call[s].pc = "save_write"
  /\ \E err \in StoreErrors :
       /\ Failed(err)
       /\ LET p == call[s].loc.prediction
              row == call[s].loc.row
          IN IF err
             THEN /\ Settle(s, call[s], FALSE, NoValue, "store_error")
                  /\ UNCHANGED predictive_model_results
             ELSE IF row # NULL
             THEN /\ predictive_model_results' =
                       UpdatePrediction(predictive_model_results, row, p)
                  /\ Settle(s, call[s], TRUE, [p EXCEPT !.id = row], "")
             ELSE /\ predictive_model_results' =
                       InsertPrediction(predictive_model_results, p)
                  /\ Settle(s, call[s], TRUE,
                            [p EXCEPT !.id = LastID(predictive_model_results)], "")
  /\ PrimaryKept /\ UNCHANGED <<dashboard_configurations, business_metrics, entityAnalytics, time_based_aggregates,
                 pending, now, callsStarted>>

\* ---------------------------------------------- generateTimeBasedAggregates
\* The calendar: day 0 is Wednesday 2025-01-01; the years in reach of the
\* clock (2025 to 2027) have 365 days.
YearOf(day) == 2025 + day \div 365
DayOfYear(day) == day % 365
MonthStarts == <<0, 31, 59, 90, 120, 151, 181, 212, 243, 273, 304, 334>>
MonthOf(day) == Max({m \in 1..12 : MonthStarts[m] <= DayOfYear(day)})
\* Days since Monday.
WeekDay(day) == (day + 2) % 7
\* strftime('%W'): week of the year, week 1 starting on the first Monday.
WeekOf(day) == (DayOfYear(day) + 7 - WeekDay(day)) \div 7

AggregationLevels == {"daily", "weekly", "monthly", "quarterly", "yearly"}
MetricNames ==
  {"revenue", "profit", "leads", "projects", "lead_conversion_rate",
   "project_profit_margin"}

\* strftime(dateFormat, date) for the dateFormat of an aggregation level, as
\* a number that orders like the text.  '%Y-Q%Q' is no strftime format:
\* SQLite answers NULL for it, whatever the date.
Period(aggregationLevel, date) ==
  IF date = NULL THEN NULL
  ELSE CASE aggregationLevel = "daily" ->
              YearOf(date) * 10000 + MonthOf(date) * 100
              + (DayOfYear(date) - MonthStarts[MonthOf(date)] + 1)
         [] aggregationLevel = "weekly" -> YearOf(date) * 100 + WeekOf(date)
         [] aggregationLevel = "monthly" -> YearOf(date) * 100 + MonthOf(date)
         [] aggregationLevel = "quarterly" -> NULL
         [] aggregationLevel = "yearly" -> YearOf(date)

RECURSIVE Sum(_)
Sum(seq) == IF seq = <<>> THEN 0 ELSE Head(seq) + Sum(Tail(seq))

\* The source rows of a metric, each as [date, start, end, amount, flag]:
\* the grouping date, the columns of MIN and MAX, the aggregated column and
\* the column counted by the CASE of lead_conversion_rate.
SourceRows(metricName) ==
  CASE metricName \in {"revenue", "profit"} ->
         {[id |-> r.id, date |-> r.end_date, start |-> r.start_date, end |-> r.end_date,
           amount |-> r.metric_value, flag |-> FALSE] :
          r \in {m \in business_metrics : m.metric_name = metricName}}
    [] metricName = "leads" ->
         {[id |-> r.id, date |-> r.created_at, start |-> r.created_at,
           end |-> r.created_at, amount |-> 1, flag |-> FALSE] : r \in leads}
    [] metricName = "projects" ->
         {[id |-> r.id, date |-> r.created_at, start |-> r.created_at,
           end |-> r.created_at, amount |-> 1, flag |-> FALSE] : r \in projects}
    [] metricName = "lead_conversion_rate" ->
         {[id |-> r.id, date |-> r.conversion_date, start |-> r.conversion_date,
           end |-> r.conversion_date, amount |-> 1, flag |-> r.converted_to_customer] :
          r \in {a \in lead_analytics : a.conversion_date # NULL}}
    [] metricName = "project_profit_margin" ->
         {[id |-> r.id, date |-> r.created_at, start |-> r.created_at,
           end |-> r.created_at, amount |-> r.profit_margin, flag |-> FALSE] :
          r \in project_analytics}
    [] OTHER -> {}

\* The value column of one group: SUM, COUNT(*), the converted share in
\* percent, or AVG * 100 (the last two in thousandths).
GroupValue(metricName, group) ==
  LET amounts == [i \in 1..Cardinality(group) |-> RowsById(group)[i].amount] IN
  CASE metricName \in {"revenue", "profit"} -> Sum(amounts)
    [] metricName \in {"leads", "projects"} -> Cardinality(group)
    [] metricName = "lead_conversion_rate" ->
         (Cardinality({r \in group : r.flag}) * 100000) \div Cardinality(group)
    [] metricName = "project_profit_margin" -> (Sum(amounts) * 100) \div Cardinality(group)

\* The rows the query of a metric returns: one per period (GROUP BY period).
Query(metricName, aggregationLevel) ==
  LET rows == SourceRows(metricName)
      periods == {Period(aggregationLevel, r.date) : r \in rows}
      Group(k) == {r \in rows : Period(aggregationLevel, r.date) = k}
  IN {[period_start |-> Min({r.start : r \in Group(k)}),
       period_end |-> Max({r.end : r \in Group(k)}),
       value |-> GroupValue(metricName, Group(k))] : k \in periods}

Aggregate(metricName, aggregationLevel, row) ==
  [id |-> NULL, metric_name |-> metricName, aggregation_level |-> aggregationLevel,
   period_start |-> row.period_start, period_end |-> row.period_end, value |-> row.value]

\* A check of the aggregation level alone.
ValidationErrorOfLevel(metricName, aggregationLevel) ==
  IF aggregationLevel \notin AggregationLevels THEN "invalid_aggregation_level" ELSE ""

\* The error of the two switches, "" when both arguments are supported.  The
\* aggregation level is looked at first.
ValidationError(metricName, aggregationLevel) ==
  IF aggregationLevel \notin AggregationLevels THEN "invalid_aggregation_level"
  ELSE IF metricName \notin MetricNames THEN "unsupported_metric"
  ELSE ""

generateTimeBasedAggregates(s, metricName, aggregationLevel) ==
  /\ CanStart(s)
  /\ callsStarted' = callsStarted + 1
  /\ LET c == [NewCall("generateTimeBasedAggregates") EXCEPT
                 !.arg = [metricName |-> metricName, aggregationLevel |-> aggregationLevel]]
         error == ValidationError(metricName, aggregationLevel)
     IN IF error # ""
        THEN Settle(s, c, FALSE, NoValue, error)
        ELSE /\ call' = [call EXCEPT ![s] = BeginAggregates(c, metricName, aggregationLevel)]
             /\ result' = [result EXCEPT ![s] = NoResult]
  /\ PrimaryKept /\ UNCHANGED <<dashboard_configurations, business_metrics, derived, pending, now, failures>>

\* The callback of the query: one INSERT is issued per row, all at once, and
\* the call waits for all of them (Promise.all).
generateTimeBasedAggregates_query(s) ==
  /\ call[s].pc = "aggregates_query"
  /\ \E err \in StoreErrors :
       /\ Failed(err)
       /\ LET a == call[s].arg
              rows == Query(a.metricName, a.aggregationLevel)
          IN IF err
             THEN /\ Settle(s, call[s], FALSE, NoValue, "store_error")
                  /\ UNCHANGED pending
             ELSE IF rows = {}
             THEN /\ Settle(s, call[s], TRUE, <<>>, "")
                  /\ UNCHANGED pending
             ELSE /\ pending' = pending \cup
                       {[cid |-> call[s].cid,
                         aggregate |-> Aggregate(a.metricName, a.aggregationLevel, row)] :
                        row \in rows}
                  /\ call' = [call EXCEPT ![s] =
                       Write([call[s] EXCEPT !.pc = "aggregates_insert"],
                             "time_based_aggregates")]
                  /\ UNCHANGED result
  /\ PrimaryKept /\ UNCHANGED <<dashboard_configurations, business_metrics, derived, now, callsStarted>>

\* An insert that replaces the row of the same metric, level and period.
ReplaceAggregate(T, a) ==
  LET kept == {r \in T : ~(/\ r.metric_name = a.metric_name
                           /\ r.aggregation_level = a.aggregation_level
                           /\ r.period_start = a.period_start)}
  IN kept \cup {[a EXCEPT !.id = LastID(T)]}

\* An insert that is given up once no call waits for its outcome.
InsertAggregateWhileAwaited(T, a) ==
  IF \E s \in Slots : call[s].pc = "aggregates_insert"
  THEN T \cup {[a EXCEPT !.id = LastID(T)]}
  ELSE T

\* INSERT INTO time_based_aggregates (...) VALUES (...)
InsertAggregate(T, a) == T \cup {[a EXCEPT !.id = LastID(T)]}

\* The call that issued a pending insert, if it still waits for it.
Waiting(p) == {s \in Slots : call[s].pc = "aggregates_insert" /\ call[s].cid = p.cid}

\* A call that waits for no other insert than the one that completes.
UnfinishedNone(p) == {}

\* Promise.all(insertPromises): the inserts of the call of p that are still
\* to complete when p does.
Unfinished(p) == {q \in pending \ {p} : q.cid = p.cid}

\* The callback of one INSERT INTO time_based_aggregates.  A failure rejects
\* the call at once; the inserts still pending complete all the same.
generateTimeBasedAggregates_insert(p) ==
  /\ p \in pending
  /\ pending' = pending \ {p}
  /\ \E err \in StoreErrors :
       /\ Failed(err)
       /\ LET stored == [p.aggregate EXCEPT !.id = LastID(time_based_aggregates)]
          IN /\ time_based_aggregates' =
                  IF err THEN time_based_aggregates
                  ELSE InsertAggregate(time_based_aggregates, p.aggregate)
             /\ IF Waiting(p) = {}
                THEN UNCHANGED <<call, result>>
                ELSE LET s == CHOOSE t \in Waiting(p) : TRUE
                         c == [call[s] EXCEPT !.loc.aggregates = Append(@, stored)]
                     IN IF err
                        THEN Settle(s, call[s], FALSE, NoValue, "store_error")
                        ELSE IF Unfinished(p) # {}
                        THEN call' = [call EXCEPT ![s] = c] /\ UNCHANGED result
                        ELSE Settle(s, c, TRUE, c.loc.aggregates, "")
  /\ PrimaryKept /\ UNCHANGED <<dashboard_configurations, business_metrics, entityAnalytics, predictive_model_results,
                 now, callsStarted>>

\* --------------------------------------------------------- insertSampleData
\* INSERT of the rows of a sequence, one after the other.
RECURSIVE InsertAll(_, _)
InsertAll(T, rows) ==
  IF rows = <<>> THEN T
  ELSE InsertAll(T \cup {[Head(rows) EXCEPT !.id = LastID(T)]}, Tail(rows))

Metric(name, value, start, end) ==
  [id |-> NULL, metric_name |-> name, metric_value |-> value,
   start_date |-> start, end_date |-> end]

\* The sample metrics of June, July and August 2025 (days 151..180, 181..211
\* and 212..230), the last three of the eight months of insertSampleData.
SampleMetrics ==
  << Metric("revenue", 210000, 151, 180), Metric("revenue", 225000, 181, 211),
     Metric("revenue", 215000, 212, 230),
     Metric("profit", 52500, 151, 180), Metric("profit", 56250, 181, 211),
     Metric("profit", 53750, 212, 230),
     Metric("leads", 78, 151, 180), Metric("leads", 85, 181, 211),
     Metric("leads", 79, 212, 230),
     Metric("projects", 31, 151, 180), Metric("projects", 34, 181, 211),
     Metric("projects", 32, 212, 230) >>

SampleSources == <<SampleText.Website, SampleText.Referral, SampleText.Google, SampleText.Facebook, SampleText.Direct>>

\* The sample lead_analytics row of a lead; r is the Math.random() draw and
\* converted the outcome of Math.random() < conversionProb.
SampleLeadAnalytics(lead, r, converted, today) ==
  LET leadScore == r \div 10
      daysToConversion == IF converted THEN (r * 30) \div 1000 + 1 ELSE NULL
  IN [id |-> NULL,
      lead_id |-> lead.id,
      acquisition_source |-> SampleSources[(r * 5) \div 1000 + 1],
      acquisition_cost |-> (r * 200) \div 1000 + 50,
      lead_score |-> leadScore,
      conversion_probability |-> leadScore * 8,
      days_to_conversion |-> daysToConversion,
      converted_to_customer |-> converted,
      conversion_date |-> IF converted THEN today - daysToConversion ELSE NULL]

SampleProjectAnalytics(project, r, today) ==
  LET estimatedCost == (r * 10000) \div 1000 + 5000
      factor == (r * 4) \div 10 + 800
      actualCost == (estimatedCost * factor) \div 1000
      estimatedDuration == (r * 20) \div 1000 + 5
  IN [id |-> NULL,
      project_id |-> project.id,
      estimated_cost |-> estimatedCost,
      actual_cost |-> actualCost,
      cost_variance_percent |-> ((actualCost - estimatedCost) * 1000) \div estimatedCost,
      estimated_duration |-> estimatedDuration,
      actual_duration |-> (estimatedDuration * factor) \div 1000,
      duration_variance_percent |-> factor - 1000,
      profit_margin |-> (r * 3) \div 10 + 150,
      created_at |-> today]

SampleCustomerAnalytics(customer, r, today) ==
  LET projectCount == (r * 3) \div 1000 + 1
      avgProjectValue == (r * 15000) \div 1000 + 5000
      retentionScore == r \div 10
  IN [id |-> NULL,
      customer_id |-> customer.id,
      lifetime_value |-> avgProjectValue * projectCount,
      retention_score |-> retentionScore,
      churn_probability |-> 1000 - retentionScore * 10,
      project_count |-> projectCount,
      average_project_value |-> avgProjectValue,
      last_interaction_date |-> today - (r * 90) \div 1000]

SampleWeatherImpactAnalytics(event, r, today) ==
  LET leadsGenerated == (r * 20) \div 1000 + 5
      projectsCreated == (leadsGenerated * (r \div 2 + 200)) \div 1000
  IN [id |-> NULL,
      weather_event_id |-> event.id,
      leads_generated |-> leadsGenerated,
      projects_created |-> projectsCreated,
      revenue_impact |-> projectsCreated * ((r * 10000) \div 1000 + 5000),
      impact_start_date |-> today - (r * 90) \div 1000,
      impact_end_date |-> today - (r * 30) \div 1000]

SampleLeadPrediction(lead, r, today) ==
  Prediction("lead_conversion_model", "lead", lead.id, "conversion_probability",
             (r * 8) \div 10 + 100, r \div 2 + 500,
             {"source", "service_interest", "location", "weather_events"},
             today, today + 30)

SampleCustomerPrediction(customer, r, today) ==
  Prediction("customer_churn_model", "customer", customer.id, "churn_probability",
             r \div 2, (r * 3) \div 10 + 600,
             {"project_count", "last_interaction", "satisfaction_score", "payment_history"},
             today, today + 90)

SampleLimit == 10
SampleCustomerLimit == 5

\* insertSampleData: does nothing once business_metrics has rows.  Its
\* inserts are taken in one step, as no other call runs beside it.  One draw r
\* stands for the Math.random() calls of the run; convertedLeads are the
\* leads whose conversion draw fell below their conversion probability.
insertSampleData ==
  /\ \A s \in Slots : call[s].op = "idle"
  /\ callsStarted < MaxCalls
  /\ callsStarted' = callsStarted + 1
  /\ business_metrics = {}
  /\ \E r \in RandomDraws :
     \E convertedLeads \in SUBSET {l.id : l \in leads} :
       /\ r = 0 => convertedLeads = {}
       /\ business_metrics' = InsertAll({}, SampleMetrics)
       /\ lead_analytics' = InsertAll(lead_analytics,
            [i \in 1..Cardinality(leads) |->
               SampleLeadAnalytics(RowsById(leads)[i], r,
                                   RowsById(leads)[i].id \in convertedLeads, now)])
       /\ project_analytics' = InsertAll(project_analytics,
            [i \in 1..Cardinality(projects) |->
               SampleProjectAnalytics(RowsById(projects)[i], r, now)])
       /\ customer_analytics' = InsertAll(customer_analytics,
            [i \in 1..Cardinality(customers) |->
               SampleCustomerAnalytics(RowsById(customers)[i], r, now)])
       /\ weather_impact_analytics' = InsertAll(weather_impact_analytics,
            [i \in 1..Cardinality(weather_events) |->
               SampleWeatherImpactAnalytics(RowsById(weather_events)[i], r, now)])
       /\ predictive_model_results' =
            InsertAll(InsertAll(predictive_model_results,
              [i \in 1..Len(Slice(RowsById(leads), SampleLimit)) |->
                 SampleLeadPrediction(RowsById(leads)[i], r, now)]),
              [i \in 1..Len(Slice(RowsById(customers), SampleCustomerLimit)) |->
                 SampleCustomerPrediction(RowsById(customers)[i], r, now)])
  /\ PrimaryKept /\ UNCHANGED <<dashboard_configurations, time_based_aggregates, pending, now, call, result, failures>>

\* ---------------------------------------------------- getDashboardMetrics
\* A set of rows, each with the value of its ORDER BY column as key, in
\* descending order of key.
RECURSIVE Descending(_)
Descending(S) ==
  IF S = {} THEN <<>>
  ELSE LET r == CHOOSE x \in S : \A y \in S : y.key <= x.key
       IN <<r>> \o Descending(S \ {r})

\* A dashboard that takes every role for a financial one.
FinancialAnyRole(role) == TRUE

\* if (role === 'admin' || role === 'manager')
Financial(role) == role = "admin" \/ role = "manager"

\* The fields of the metrics object in the order of their queries, each
\* query awaited before the next one is issued.
DashboardQueries(role) ==
  <<"leadConversionRate", "avgProfitMargin", "avgCustomerLTV", "weatherImpact",
    "recentMetrics">> \o (IF Financial(role) THEN <<"revenueByMonth">> ELSE <<>>)

\* What the callback of the query of a field resolves with: null or [] when
\* the store reports an error, the value the query computes otherwise
\* (rates and averages in thousandths).
QueryResult(field, err) ==
  LET \* AVG(column) || 0 over <<id, value>> pairs, NULL values left out.
      Average(values) ==
        LET known == {v \in values : v[2] # NULL}
            total == Sum([i \in 1..Cardinality(known) |->
                            (CHOOSE v \in known :
                               Cardinality({w \in known : w[1] <= v[1]}) = i)[2]])
        IN IF known = {} THEN 0 ELSE total \div Cardinality(known)
  IN
  CASE field = "leadConversionRate" ->
         IF err THEN NULL
         ELSE IF lead_analytics = {} THEN 0
         ELSE (Cardinality({r \in lead_analytics : r.converted_to_customer}) * 100000)
              \div Cardinality(lead_analytics)
    [] field = "avgProfitMargin" ->
         IF err THEN NULL ELSE Average({<<r.id, r.profit_margin>> : r \in project_analytics})
    [] field = "avgCustomerLTV" ->
         IF err THEN NULL ELSE Average({<<r.id, r.lifetime_value>> : r \in customer_analytics})
    [] field = "weatherImpact" ->
         IF err THEN <<>>
         ELSE LET joined == {<<wia, we>> \in weather_impact_analytics \X weather_events :
                              wia.weather_event_id = we.id}
                  Group(t) == {j \in joined : j[2].event_type = t}
                  Total(t, column) ==
                    Sum([i \in 1..Cardinality(Group(t)) |->
                           (CHOOSE j \in Group(t) :
                              Cardinality({k \in Group(t) : k[1].id <= j[1].id}) = i)[1][column]])
              IN Slice(Descending({[event_type |-> t, total_leads |-> Total(t, "leads_generated"),
                                    total_revenue |-> Total(t, "revenue_impact"),
                                    key |-> Total(t, "revenue_impact")] :
                                   t \in {j[2].event_type : j \in joined}}), 5)
    [] field = "recentMetrics" ->
         IF err THEN <<>>
         ELSE Slice(Descending({[metric_name |-> m.metric_name, metric_value |-> m.metric_value,
                                 start_date |-> m.start_date, end_date |-> m.end_date,
                                 key |-> m.end_date] : m \in business_metrics}), 10)
    [] field = "revenueByMonth" ->
         IF err THEN <<>>
         ELSE LET revenue == {m \in business_metrics : m.metric_name = "revenue"}
                  Group(k) == {m \in revenue : Period("monthly", m.end_date) = k}
              IN Slice(Descending({[month |-> k, key |-> k,
                                    revenue |-> Sum([i \in 1..Cardinality(Group(k)) |->
                                                       RowsById(Group(k))[i].metric_value])] :
                                   k \in {Period("monthly", m.end_date) : m \in revenue}}), 12)

\* getDashboardMetrics(userId, role) issues its first query.  A client asks
\* for the dashboard once.
getDashboardMetrics(s, userId, role) ==
  /\ call[s].op = "idle"
  /\ result[s].op # "getDashboardMetrics"
  /\ callsStarted' = callsStarted + 1
  /\ call' = [call EXCEPT ![s] =
       Read([NewCall("getDashboardMetrics") EXCEPT
               !.pc = "dashboard_query",
               !.arg = [id |-> NULL, userId |-> userId, role |-> role],
               !.loc = [id |-> NULL, metrics |-> <<>>, next |-> 1]],
            DashboardQueries(role)[1])]
  /\ result' = [result EXCEPT ![s] = NoResult]
  /\ PrimaryKept /\ UNCHANGED <<dashboard_configurations, business_metrics, derived, pending, now, failures>>

\* The callback of the query awaited: the field is set, and the next query
\* is issued or the metrics are returned.  The operations are logged by the
\* field they fill.
getDashboardMetrics_query(s) ==
  /\ call[s].pc = "dashboard_query"
  /\ \E err \in StoreErrors :
       /\ Failed(err)
       /\ LET queries == DashboardQueries(call[s].arg.role)
              field == queries[call[s].loc.next]
              metrics == call[s].loc.metrics @@ (field :> QueryResult(field, err))
              c == Absorbed(call[s], err, field)
          IN IF call[s].loc.next = Len(queries)
             THEN Settle(s, c, TRUE, [id |-> NULL, metrics |-> metrics], "")
             ELSE /\ call' = [call EXCEPT ![s] =
                       Read([c EXCEPT !.loc = [id |-> NULL, metrics |-> metrics,
                                               next |-> call[s].loc.next + 1]],
                            queries[call[s].loc.next + 1])]
                  /\ UNCHANGED result
  /\ PrimaryKept /\ UNCHANGED <<dashboard_configurations, business_metrics, derived, pending, now, callsStarted>>

\* --------------------------------------------------- getPredictiveInsights
InsightsLimit == 100

\* A filter that lets every row through.
NotExpiredEver(expiration_date, today) == TRUE

\* WHERE expiration_date > datetime('now').  Both sides are texts and are
\* compared character by character: the column holds what toISOString()
\* wrote, 'YYYY-MM-DDTHH:MM:SS.sssZ', and datetime('now') is
\* 'YYYY-MM-DD HH:MM:SS'.  A timestamp is the text of its day and the
\* character after it, the times of day being the same in the model; 'T'
\* is character 84 and ' ' character 32.
NotExpired(expiration_date, today) ==
  LET column == <<expiration_date, 84>>
      datetimeNow == <<today, 32>>
  IN \/ column[1] > datetimeNow[1]
     \/ column[1] = datetimeNow[1] /\ column[2] > datetimeNow[2]

\* getPredictiveInsights() issues its query.  It is not counted with the
\* calls that write, and is not made twice in a row.
getPredictiveInsights(s) ==
  /\ call[s].op = "idle"
  /\ result[s].op # "getPredictiveInsights"
  /\ call' = [call EXCEPT ![s] =
       Read([NewCall("getPredictiveInsights") EXCEPT !.pc = "insights_rows"],
            "predictive_model_results")]
  /\ result' = [result EXCEPT ![s] = NoResult]
  /\ PrimaryKept /\ UNCHANGED <<dashboard_configurations, business_metrics, derived, pending, now, callsStarted, failures>>

\* The callback of the query: reject(err), or resolve(rows || []) with the
\* rows that have not expired, the latest prediction_date first, InsightsLimit
\* of them at most.
getPredictiveInsights_rows(s) ==
  /\ call[s].pc = "insights_rows"
  /\ \E err \in StoreErrors :
       /\ Failed(err)
       /\ LET rows ==
                {[model_name |-> r.model_name, entity_type |-> r.entity_type,
                  entity_id |-> r.entity_id, prediction_type |-> r.prediction_type,
                  prediction_value |-> r.prediction_value,
                  confidence_score |-> r.confidence_score,
                  prediction_date |-> r.prediction_date, key |-> r.prediction_date] :
                 r \in {q \in predictive_model_results : NotExpired(q.expiration_date, now)}}
          IN IF err
             THEN Settle(s, call[s], FALSE, NoValue, "store_error")
             ELSE Settle(s, call[s], TRUE,
                         [id |-> NULL, rows |-> Slice(Descending(rows), InsightsLimit)], "")
  /\ PrimaryKept /\ UNCHANGED <<dashboard_configurations, business_metrics, derived, pending, now, callsStarted>>

\* ------------------------------------------------------------------ clock
\* Time passes between calls; within a call it does not (a call takes
\* milliseconds, a tick is TickDays days).
Tick ==
  /\ \A s \in Slots : call[s].op = "idle"
  /\ callsStarted < MaxCalls
  /\ now < StartDay + MaxTicks * TickDays
  /\ now' = now + TickDays
  /\ UNCHANGED <<primary, business_metrics, derived, dashboard_configurations, pending, control>>

\* The time a prediction lasts passes between two calls.
Later ==
  /\ \A s \in Slots : call[s].op = "idle"
  /\ callsStarted < MaxCalls
  /\ now < StartDay + MaxTicks * TickDays
  /\ now' = now + ExpirationDays
  /\ UNCHANGED <<primary, business_metrics, derived, dashboard_configurations, pending, control>>

\* ------------------------------------------------------------ specification
Reconcile(s) ==
  \/ \E lead \in leads : processLeadData(s, lead)
  \/ \E project \in projects : processProjectData(s, project)
  \/ \E customer \in customers : processCustomerData(s, customer)
  \/ \E weatherEvent \in weather_events : processWeatherEventData(s, weatherEvent)

ReconcileStep(s) ==
  \/ processLeadData_check(s)
  \/ processLeadData_write(s)
  \/ processProjectData_check(s)
  \/ processProjectData_write(s)
  \/ processCustomerData_projects(s)
  \/ processCustomerData_check(s)
  \/ processCustomerData_write(s)
  \/ processWeatherEventData_check(s)
  \/ processWeatherEventData_write(s)

Next ==
  \/ \E s \in Slots : Sequential(s) /\ Reconcile(s)
  \/ \E s \in Slots : ReconcileStep(s)
  \/ insertSampleData
  \/ Tick

Spec == Init /\ [][Next]_vars

\* The reconcilers, over one kind of entity at a time.
SpecScore == InitScore /\ [][Next]_vars

\* The prediction dispatcher, over analytics rows that insertSampleData or a
\* reconcile call stored.
ModelInputs ==
  { <<"lead_conversion_model", "conversion_probability">>,
    <<"customer_churn_model", "churn_probability">>,
    <<"project_cost_model", "cost_overrun_probability">>,
    <<"roof_age_model", "replacement_probability">>,
    <<"lead_conversion", "model_conversion_probability">> }

EntityTypes == {"lead", "customer", "project"}

EntityIds == 1..(Max({MaxLeads, MaxProjects, MaxCustomers}) + 1)

Predict(s) ==
  \E mi \in ModelInputs, entityType \in EntityTypes, entityId \in EntityIds :
    generatePrediction(s, mi[1], entityType, entityId, mi[2])

PredictStep(s) ==
  \/ generatePrediction_entity(s)
  \/ generatePrediction_analytics(s)
  \/ savePrediction_check(s)
  \/ savePrediction_write(s)

NextPredict ==
  \/ \E s \in Slots : Sequential(s) /\ Predict(s)
  \/ \E s \in Slots : PredictStep(s)
  \/ insertSampleData
  \/ Tick

SpecPredict == InitFull /\ [][NextPredict]_vars

\* The time aggregator, over the primary tables and the sample data.
MetricInputs == MetricNames \cup {"churn"}
LevelInputs == AggregationLevels \cup {"fortnightly"}

Aggregates(s) ==
  \E metricName \in MetricInputs, aggregationLevel \in LevelInputs :
    generateTimeBasedAggregates(s, metricName, aggregationLevel)

AggregatesStep ==
  \/ \E s \in Slots : generateTimeBasedAggregates_query(s)
  \/ \E p \in pending : generateTimeBasedAggregates_insert(p)

NextAggregate ==
  \/ \E s \in Slots : Sequential(s) /\ Aggregates(s)
  \/ AggregatesStep
  \/ insertSampleData

SpecAggregate == InitFull /\ [][NextAggregate]_vars

\* The dashboard, asked for by two clients over the same rows: the sample
\* data are inserted before the first of them asks, or not at all.
NextDashboard ==
  \/ \E s \in Slots, role \in {"admin", "manager", "sales", "Admin"} :
       getDashboardMetrics(s, s, role)
  \/ \E s \in Slots : getDashboardMetrics_query(s)
  \/ (\A s \in Slots : result[s].op # "getDashboardMetrics") /\ insertSampleData

SpecDashboard == InitFull /\ [][NextDashboard]_vars

\* The insights, over the predictions of the sample data and those
\* generatePrediction saves for the leads.
NextInsights ==
  \/ \E s \in Slots, entityId \in 1..MaxLeads :
       /\ Sequential(s)
       /\ generatePrediction(s, "lead_conversion_model", "lead", entityId,
                             "conversion_probability")
  \/ \E s \in Slots : PredictStep(s)
  \/ \E s \in Slots : Sequential(s) /\ getPredictiveInsights(s)
  \/ \E s \in Slots : getPredictiveInsights_rows(s)
  \/ insertSampleData
  \/ Later

SpecInsights == InitFull /\ [][NextInsights]_vars

\* ------------------------------------------------- POST /dashboard-config
\* The handler of a request of user userId: a request without a name or
\* without a configuration is answered 400 and issues nothing; else the
\* handler issues, when is_default is set, the UPDATE that clears the user's
\* defaults, with no callback, and right after it the INSERT, whose callback
\* answers.  The database is in its default parallel mode: the store takes
\* the statements in flight in any order.
postDashboardConfig(s, userId, dashboard_name, configuration, is_default) ==
  /\ CanStart(s)
  /\ callsStarted' = callsStarted + 1
  /\ LET c == [NewCall("postDashboardConfig") EXCEPT
                 !.pc = "config_insert",
                 !.arg = [id |-> userId, dashboard_name |-> dashboard_name,
                          configuration |-> configuration, is_default |-> is_default]]
     IN IF dashboard_name = "" \/ configuration = ""
        THEN /\ Settle(s, c, FALSE, NoValue, "bad_request")
             /\ UNCHANGED pending
        ELSE /\ call' = [call EXCEPT ![s] = Write(c, "dashboard_configurations")]
             /\ result' = [result EXCEPT ![s] = NoResult]
             /\ pending' = IF is_default
                           THEN pending \cup {[cid |-> c.cid, user_id |-> userId]}
                           ELSE pending
  /\ PrimaryKept /\ UNCHANGED <<dashboard_configurations, business_metrics, derived, now, failures>>

\* The store executes an UPDATE ... SET is_default = FALSE WHERE user_id = ?
\* AND is_default = TRUE.  Nobody is told how it went.
postDashboardConfig_update(p) ==
  /\ p \in pending
  /\ pending' = pending \ {p}
  /\ \E err \in StoreErrors :
       /\ Failed(err)
       /\ dashboard_configurations' =
            IF err THEN dashboard_configurations
            ELSE {IF r.user_id = p.user_id /\ r.is_default = 1
                  THEN [r EXCEPT !.is_default = 0] ELSE r : r \in dashboard_configurations}
  /\ PrimaryKept /\ UNCHANGED <<business_metrics, derived, now, call, result, callsStarted>>

\* The callback of the INSERT: 500 on an error, else 201 with the id.
postDashboardConfig_insert(s) ==
  /\ call[s].pc = "config_insert"
  /\ \E err \in StoreErrors :
       /\ Failed(err)
       /\ LET a == call[s].arg
              row == [id |-> LastID(dashboard_configurations), user_id |-> a.id,
                      dashboard_name |-> a.dashboard_name,
                      configuration |-> a.configuration,
                      is_default |-> IF a.is_default THEN 1 ELSE 0]
          IN IF err
             THEN /\ Settle(s, call[s], FALSE, NoValue, "store_error")
                  /\ UNCHANGED dashboard_configurations
             ELSE /\ dashboard_configurations' = dashboard_configurations \cup {row}
                  /\ Settle(s, call[s], TRUE, row, "")
  /\ PrimaryKept /\ UNCHANGED <<business_metrics, derived, pending, now, callsStarted>>

\* The requests of two users, two clients at a time.
NextConfig ==
  \/ \E s \in Slots, userId \in 1..2, dashboard_name \in {"", "main"},
        configuration \in {"", "layout"}, is_default \in BOOLEAN :
       postDashboardConfig(s, userId, dashboard_name, configuration, is_default)
  \/ \E p \in pending : postDashboardConfig_update(p)
  \/ \E s \in Slots : postDashboardConfig_insert(s)

SpecConfig == InitFull /\ [][NextConfig]_vars

\* Two clients whose calls overlap, over one entity of each kind.  The
\* derived tables are empty, or they hold what a reconcile of each entity
\* followed by insertSampleData leaves: the reconciled row and the sample
\* row of each entity (no table has a unique key on its foreign key), the
\* sample metrics and the sample predictions.
InitOverlap ==
  /\ leads = {LeadRow(1)}
  /\ projects = {ProjectRow(1)}
  /\ customers = {CustomerRow(1)}
  /\ weather_events = {WeatherEventRow(1)}
  /\ \/ /\ business_metrics = {}
        /\ lead_analytics = {}
        /\ project_analytics = {}
        /\ customer_analytics = {}
        /\ weather_impact_analytics = {}
        /\ predictive_model_results = {}
     \/ /\ business_metrics = InsertAll({}, SampleMetrics)
        /\ lead_analytics =
             InsertAll(InsertLeadAnalytics({}, LeadAnalyticsOf(LeadRow(1))),
                       <<SampleLeadAnalytics(LeadRow(1), 900, FALSE, StartDay)>>)
        /\ project_analytics =
             InsertAll(InsertProjectAnalytics({}, ProjectAnalyticsOf(ProjectRow(1), 0), StartDay),
                       <<SampleProjectAnalytics(ProjectRow(1), 900, StartDay)>>)
        /\ customer_analytics =
             InsertAll(InsertCustomerAnalytics({},
                         CustomerAnalyticsOf(CustomerRow(1), <<ProjectRow(1)>>, StartDay)),
                       <<SampleCustomerAnalytics(CustomerRow(1), 900, StartDay)>>)
        /\ weather_impact_analytics =
             InsertAll(InsertWeatherImpactAnalytics({},
                         WeatherImpactAnalyticsOf(WeatherEventRow(1))),
                       <<SampleWeatherImpactAnalytics(WeatherEventRow(1), 900, StartDay)>>)
        /\ predictive_model_results =
             InsertAll({}, <<SampleLeadPrediction(LeadRow(1), 900, StartDay),
                             SampleCustomerPrediction(CustomerRow(1), 900, StartDay)>>)
  /\ time_based_aggregates = {}
  /\ dashboard_configurations = {}
  /\ pending = {}
  /\ now = StartDay
  /\ call = [s \in Slots |-> Idle]
  /\ result = [s \in Slots |-> NoResult]
  /\ callsStarted = 0
  /\ failures = 0

\* Each client starts its call when it likes, whatever the other's call is
\* at; the store takes the operations in the order it gets them.
NextOverlap ==
  \/ \E s \in Slots : Reconcile(s)
  \/ \E s \in Slots : ReconcileStep(s)
  \/ \E s \in Slots :
       generatePrediction(s, "lead_conversion_model", "lead", 1, "conversion_probability")
  \/ \E s \in Slots : PredictStep(s)

SpecOverlap == InitOverlap /\ [][NextOverlap]_vars

\* The batch orchestrator: one run, before or after the sample data.
FirstRun(s) == result[s].op # "processAllData"

NextBatch ==
  \/ \E s \in Slots : Sequential(s) /\ FirstRun(s) /\ processAllData(s)
  \/ \E s \in Slots : processAllData_load(s)
  \/ \E s \in Slots : ReconcileStep(s)
  \/ \E s \in Slots : PredictStep(s)
  \/ AggregatesStep
  \/ FirstRun(1) /\ insertSampleData

SpecBatch == Init /\ [][NextBatch]_vars

\* ================================================================ properties
Unseeded == business_metrics = {}

\* The call of slot s settles in this step.
Settles(s) == result'[s] # result[s] /\ result'[s].status # "none"
Resolves(s, op) == Settles(s) /\ result'[s].status = "resolved" /\ result'[s].op = op

LeadIds(T) == {r.lead_id : r \in T}
ProjectIds(T) == {r.project_id : r \in T}
CustomerIds(T) == {r.customer_id : r \in T}
WeatherEventIds(T) == {r.weather_event_id : r \in T}

\* One step on an analytics table, given the ids it holds rows for before
\* (ids) and after (idsAfter), the number of rows per id after (perId), the
\* number of rows before and after, and the id a reconcile call that
\* resolves in this step was made for (reconciled, {} when there is none):
\* no id loses its row, no id has two rows, an id gets its row only by a
\* reconcile call for it, and a reconcile call for an id that has a row
\* adds none.
OneRowStep(ids, idsAfter, perId(_), rows, rowsAfter, reconciled) ==
  /\ ids \subseteq idsAfter
  /\ \A i \in idsAfter : perId(i) = 1
  /\ idsAfter \ ids \subseteq reconciled
  /\ reconciled \subseteq idsAfter
  /\ reconciled \cap ids # {} => rowsAfter = rows

Reconciled(op) == {result'[s].arg.id : s \in {t \in Slots : Resolves(t, op)}}

\* C1: starting from empty analytics tables, sequential reconcile calls keep
\* exactly one row per reconciled entity id in each analytics table and no
\* row for any other id: the first reconcile of an id inserts its row, every
\* later one updates it.
C1_OneRowPerReconciledId ==
  [][Unseeded' =>
      /\ OneRowStep(LeadIds(lead_analytics), LeadIds(lead_analytics'),
                    LAMBDA i : Cardinality({r \in lead_analytics' : r.lead_id = i}),
                    Cardinality(lead_analytics), Cardinality(lead_analytics'),
                    Reconciled("processLeadData"))
      /\ OneRowStep(ProjectIds(project_analytics), ProjectIds(project_analytics'),
                    LAMBDA i : Cardinality({r \in project_analytics' : r.project_id = i}),
                    Cardinality(project_analytics), Cardinality(project_analytics'),
                    Reconciled("processProjectData"))
      /\ OneRowStep(CustomerIds(customer_analytics), CustomerIds(customer_analytics'),
                    LAMBDA i : Cardinality({r \in customer_analytics' : r.customer_id = i}),
                    Cardinality(customer_analytics), Cardinality(customer_analytics'),
                    Reconciled("processCustomerData"))
      /\ OneRowStep(WeatherEventIds(weather_impact_analytics),
                    WeatherEventIds(weather_impact_analytics'),
                    LAMBDA i : Cardinality({r \in weather_impact_analytics' :
                                             r.weather_event_id = i}),
                    Cardinality(weather_impact_analytics),
                    Cardinality(weather_impact_analytics'),
                    Reconciled("processWeatherEventData"))]_vars

\* A second reconcile of a project has resolved on its update branch (the
\* record it returns has no id) and the project still has one row.
C1_Witness ==
  /\ Unseeded
  /\ result[1].status = "resolved"
  /\ result[1].op = "processProjectData"
  /\ result[1].value.id = NULL
  /\ Cardinality({r \in project_analytics : r.project_id = result[1].arg.id}) = 1

\* The conversion columns of a lead_analytics row.
Conversion(r) == <<r.days_to_conversion, r.converted_to_customer, r.conversion_date>>

\* C2: a reconcile of a lead that has a lead_analytics row leaves the row's
\* days_to_conversion, converted_to_customer and conversion_date as they
\* were, and a reconcile of a lead whose row an earlier reconcile wrote
\* stores the same lead_score, acquisition_source, acquisition_cost and
\* conversion_probability again (the row is the same after as before).
C2_UpdateKeepsConversion ==
  [][\A s \in Slots :
       (Resolves(s, "processLeadData") /\ call[s].loc.row # NULL) =>
         /\ \A r \in lead_analytics :
              \E q \in lead_analytics' : q.id = r.id /\ Conversion(q) = Conversion(r)
         /\ \A q \in lead_analytics' :
              q.lead_id = call[s].arg.id =>
                /\ q.lead_score = LeadScore(call[s].arg)
                /\ q.conversion_probability = LeadScore(call[s].arg) * 8
         /\ Unseeded => lead_analytics' = lead_analytics]_vars

\* A converted sample row has been reconciled: it carries the computed
\* score and is still converted.
C2_Witness ==
  /\ result[1].status = "resolved"
  /\ result[1].op = "processLeadData"
  /\ \E r \in lead_analytics :
       /\ r.lead_id = result[1].arg.id
       /\ r.converted_to_customer
       /\ r.conversion_date # NULL
       /\ r.lead_score = LeadScore(result[1].arg)
       /\ r.acquisition_source = AcquisitionSource(result[1].arg)

\* The key of a predictive_model_results row.
KeyOf(r) == <<r.model_name, r.entity_type, r.entity_id, r.prediction_type>>
UniqueKeys(T) == \A r \in T, q \in T : KeyOf(r) = KeyOf(q) => r = q

\* The columns savePrediction writes on both of its branches.
Written(r) ==
  <<r.prediction_value, r.confidence_score, r.features_used, r.prediction_date,
    r.expiration_date>>

\* C3: sequential generatePrediction calls leave at most one
\* predictive_model_results row per (model_name, entity_type, entity_id,
\* prediction_type): a call whose key has a row updates that row in place
\* (same id; value, confidence, features, prediction date and expiration
\* date of the call) and inserts nothing; a call whose key has none inserts
\* one row; rows of other keys stay as they are.
C3_OneRowPerKey ==
  /\ [](Unseeded => UniqueKeys(predictive_model_results))
  /\ [][\A s \in Slots :
          Resolves(s, "generatePrediction") =>
            LET a == call[s].arg
                p == result'[s].value
                before == {r \in predictive_model_results : SameKey(r, a)}
                after == {r \in predictive_model_results' : SameKey(r, a)}
            IN /\ UniqueKeys(predictive_model_results) =>
                    UniqueKeys(predictive_model_results')
               /\ \A r \in predictive_model_results :
                    ~SameKey(r, a) => r \in predictive_model_results'
               /\ {r.id : r \in after} \ {r.id : r \in before} =
                    IF before = {} THEN {p.id} ELSE {}
               /\ Cardinality(predictive_model_results') =
                    Cardinality(predictive_model_results)
                    + (IF before = {} THEN 1 ELSE 0)
               /\ \E q \in after :
                    /\ q.id = p.id
                    /\ Written(q) = Written(p)
                    /\ q.prediction_date = now
                    /\ q.expiration_date = now + ExpirationDays]_vars

\* A call has updated the row insertSampleData stored for its key: the row
\* carries the features of the call and no row was added.
C3_Witness ==
  /\ ~Unseeded
  /\ result[1].status = "resolved"
  /\ result[1].op = "generatePrediction"
  /\ result[1].cid = callsStarted
  /\ Cardinality(predictive_model_results) = MaxLeads + MaxCustomers
  /\ \E r \in predictive_model_results :
       /\ r.id = result[1].value.id
       /\ SameKey(r, result[1].arg)
       /\ r.features_used = {"lead_score", "acquisition_source", "service_interest"}

\* A store operation of the call of slot s, made by op, fails in this step.
FailsIn(s, op) == failures' > failures /\ call[s].op = op /\ call'[s] # call[s]

FallbackFeatures == {{"basic_lead_info"}, {"basic_customer_info"}, {"basic_project_info"}}

Missing(entityType, entityId) ==
  \A e \in (IF entityType = "lead" THEN leads
            ELSE IF entityType = "customer" THEN customers
            ELSE IF entityType = "project" THEN projects ELSE {}) : e.id # entityId

\* C10: generatePrediction for an entity that is not in its table rejects
\* with the not-found error (or with the store's error when the read of the
\* entity fails), having issued the read of the entity's table and nothing
\* else: no analytics table and no prediction is read or written.
C10_MissingEntity ==
  /\ [](\A s \in Slots :
          (call[s].op = "generatePrediction" /\ call[s].pc # "prediction_entity") =>
            ~Missing(call[s].arg.entityType, call[s].arg.entityId))
  /\ [][\A s \in Slots :
          (Settles(s) /\ result'[s].op = "generatePrediction"
           /\ Missing(result'[s].arg.entityType, result'[s].arg.entityId)) =>
            /\ result'[s].status = "rejected"
            /\ result'[s].error = IF failures' > failures THEN "store_error" ELSE "not_found"
            /\ result'[s].ops = {<<"read", result'[s].arg.entityType \o "s">>}
            /\ UNCHANGED <<entityAnalytics, derived>>]_vars

\* A call for a missing entity was rejected while a prediction of an earlier
\* call is stored.
C10_Witness ==
  /\ result[1].op = "generatePrediction"
  /\ result[1].status = "rejected"
  /\ result[1].error = "not_found"
  /\ result[1].arg.entityId > MaxLeads
  /\ predictive_model_results # {}

\* C4: generateTimeBasedAggregates never changes or removes a row of
\* time_based_aggregates, and a call that resolves has appended one row per
\* bucket of its query: its metric and level have the rows they had when the
\* call was made and one more per bucket, so that a second run over the same
\* source rows doubles the rows of the first.
C4_AppendOnly ==
  /\ [][time_based_aggregates \subseteq time_based_aggregates']_vars
  /\ [][\A s \in Slots :
          (Resolves(s, "generateTimeBasedAggregates") /\ failures' = 0) =>
            LET a == call[s].arg
                buckets == Cardinality(Query(a.metricName, a.aggregationLevel))
                stored == result'[s].value
            IN /\ Len(stored) = buckets
               /\ \A i \in 1..Len(stored) : stored[i] \in time_based_aggregates'
               /\ \A i, j \in 1..Len(stored) : stored[i].id = stored[j].id => i = j
               /\ Cardinality(AggregatesOf(time_based_aggregates', a.metricName,
                                           a.aggregationLevel))
                    = call[s].loc.before + buckets]_vars

\* The second of two runs for one metric and level has resolved: the metric
\* and level have twice the rows the run returned.
C4_Witness ==
  /\ Unseeded
  /\ failures = 0
  /\ callsStarted = 2
  /\ result[1].status = "resolved"
  /\ result[1].op = "generateTimeBasedAggregates"
  /\ result[1].cid = 2
  /\ Len(result[1].value) = 2
  /\ Cardinality(AggregatesOf(time_based_aggregates, result[1].arg.metricName,
                              result[1].arg.aggregationLevel)) = 4

Unsupported(a) ==
  a.aggregationLevel \notin AggregationLevels \/ a.metricName \notin MetricNames

\* C5: generateTimeBasedAggregates with an aggregationLevel or a metricName
\* outside the supported sets is rejected with an error when it is called,
\* before any store operation is issued: no call with such arguments is ever
\* in progress, no insert of such a row is ever pending or stored, and the
\* step that rejects leaves time_based_aggregates as it is.
C5_UnsupportedArguments ==
  /\ [](/\ \A s \in Slots :
            call[s].op = "generateTimeBasedAggregates" => ~Unsupported(call[s].arg)
        /\ \A p \in pending :
            /\ p.aggregate.metric_name \in MetricNames
            /\ p.aggregate.aggregation_level \in AggregationLevels
        /\ \A r \in time_based_aggregates :
            /\ r.metric_name \in MetricNames
            /\ r.aggregation_level \in AggregationLevels)
  /\ [][\A s \in Slots :
          (Settles(s) /\ result'[s].op = "generateTimeBasedAggregates"
           /\ Unsupported(result'[s].arg)) =>
            /\ result'[s].status = "rejected"
            /\ result'[s].error =
                 IF result'[s].arg.aggregationLevel \notin AggregationLevels
                 THEN "invalid_aggregation_level" ELSE "unsupported_metric"
            /\ result'[s].ops = {}
            /\ call[s] = Idle
            /\ UNCHANGED <<time_based_aggregates, pending, failures>>]_vars

\* A call for an unsupported metric was rejected while the rows of an
\* earlier call are stored.
C5_Witness ==
  /\ result[1].op = "generateTimeBasedAggregates"
  /\ result[1].status = "rejected"
  /\ result[1].error = "unsupported_metric"
  /\ result[1].ops = {}
  /\ time_based_aggregates # {}

\* The callbacks a step of processAllData can wait for.
StepCallbacks(k) ==
  CASE k = 1 -> {"load", "lead_check", "lead_write"}
    [] k = 2 -> {"load", "project_check", "project_write"}
    [] k = 3 -> {"load", "customer_projects", "customer_check", "customer_write"}
    [] k = 4 -> {"load", "weather_check", "weather_write"}
    [] k \in 5..7 -> {"prediction_entity", "prediction_analytics", "save_check", "save_write"}
    [] OTHER -> {"aggregates_query", "aggregates_insert"}

\* The model a prediction step asks for.
StepModel(k) ==
  CASE k = 5 -> "lead_conversion_model"
    [] k = 6 -> "customer_churn_model"
    [] OTHER -> "project_cost_model"

\* Step k of a run is at work on the call the step is made of.
AtStep(c, k) ==
  /\ c.pc \in StepCallbacks(k)
  /\ k \in 5..7 => c.arg.modelName = StepModel(k)
  /\ k > 7 => c.arg.metricName = BatchMetrics[k - 7] /\ c.arg.aggregationLevel = "monthly"
  /\ \A p \in pending :
       p.cid = c.cid =>
         /\ k > 7
         /\ c.pc = "aggregates_insert"
         /\ p.aggregate.metric_name = BatchMetrics[k - 7]

\* C7: processAllData takes its steps in the order leads, projects,
\* customers, weather events, lead predictions, churn predictions, cost
\* predictions, then the monthly aggregates of revenue, profit, leads,
\* projects, lead_conversion_rate and project_profit_margin: the steps
\* entered so far are 1..phase, the run waits for a callback of the current
\* step only, a step is entered from the one before it when no store
\* operation of the run is pending, and a run that returns has entered all
\* thirteen with nothing pending.
C7_StepsInOrder ==
  /\ [](\A s \in Slots :
          /\ call[s].op = "processAllData" =>
               /\ call[s].batch.phase \in 1..LastStep
               /\ call[s].batch.steps = [k \in 1..call[s].batch.phase |-> k]
               /\ AtStep(call[s], call[s].batch.phase)
          /\ (result[s].op = "processAllData" /\ result[s].status = "resolved") =>
               /\ result[s].run.steps = [k \in 1..LastStep |-> k]
               /\ pending = {})
  /\ [][\A s \in Slots :
          (/\ call[s].op = "processAllData"
           /\ call'[s].op = "processAllData"
           /\ call'[s].batch.phase # call[s].batch.phase) =>
            /\ call'[s].batch.phase = call[s].batch.phase + 1
            /\ call'[s].batch.idx = IF Loads(call'[s].batch.phase) THEN 0 ELSE 1
            /\ \A p \in pending' : p.cid # call[s].cid]_vars

\* A run over two leads has returned its summary.
C7_Witness ==
  /\ result[1].op = "processAllData"
  /\ result[1].status = "resolved"
  /\ Len(result[1].run.leads) = 2
  /\ Len(result[1].run.steps) = LastStep
  /\ time_based_aggregates # {}

C9_SummaryCounts ==
  \A s \in Slots :
    (result[s].op = "processAllData" /\ result[s].status = "resolved") =>
      /\ result[s].value.leadsProcessed = Cardinality(leads)
      /\ result[s].value.projectsProcessed = Cardinality(projects)
      /\ result[s].value.customersProcessed = Cardinality(customers)
      /\ result[s].value.weatherEventsProcessed = Cardinality(weather_events)
      /\ result[s].value.predictionsGenerated = result[s].run.predictions
      /\ result[s].value.predictionsGenerated =
           Min({LeadPredictions, Cardinality(leads)})
           + Min({CustomerPredictions, Cardinality(customers)})
           + Min({ProjectPredictions, Cardinality(projects)})
      /\ result[s].value.aggregatesGenerated = result[s].run.aggregates

\* The analytics table a reconciler writes.
StoredBy(op) ==
  CASE op = "processLeadData" -> lead_analytics
    [] op = "processProjectData" -> project_analytics
    [] op = "processCustomerData" -> customer_analytics
    [] op = "processWeatherEventData" -> weather_impact_analytics
    [] OTHER -> {}

Reconcilers ==
  {"processLeadData", "processProjectData", "processCustomerData",
   "processWeatherEventData"}

\* The last call made was a reconciler call and it resolved.
ReconciledLast(s) ==
  /\ result[s].op \in Reconcilers
  /\ result[s].status = "resolved"
  /\ result[s].cid = callsStarted

\* C11: the record a reconciler call resolves with is the row stored for the
\* entity after the call, id included: some row of the reconciler's table
\* has the id and every other field of the record.
C11_ReturnsStoredRecord ==
  \A s \in Slots :
    ReconciledLast(s) =>
      \E q \in StoredBy(result[s].op) :
        \A f \in DOMAIN result[s].value : q[f] = result[s].value[f]

\* C11 on the insert branch alone (the record has the id of the new row).
C11_InsertReturnsStoredRecord ==
  \A s \in Slots :
    (ReconciledLast(s) /\ result[s].value.id # NULL) =>
      \E q \in StoredBy(result[s].op) :
        \A f \in DOMAIN result[s].value : q[f] = result[s].value[f]

\* C12: no step of the four reconcilers, of generatePrediction, of
\* generateTimeBasedAggregates or of processAllData changes leads, projects,
\* customers or weather_events: the tables hold the rows they held before
\* the first call.
C12_PrimaryUnchanged ==
  /\ [][UNCHANGED primary]_vars
  /\ [](/\ leads = {LeadRow(i) : i \in 1..Cardinality(leads)}
        /\ projects = {ProjectRow(i) : i \in 1..Cardinality(projects)}
        /\ customers = {CustomerRow(i) : i \in 1..Cardinality(customers)}
        /\ weather_events = {WeatherEventRow(i) : i \in 1..Cardinality(weather_events)})

\* A processAllData run has returned: every kind of operation has run.
C12_Witness ==
  /\ result[1].op = "processAllData"
  /\ result[1].status = "resolved"
  /\ leads = {LeadRow(1), LeadRow(2)}
  /\ lead_analytics # {}
  /\ predictive_model_results # {}
  /\ time_based_aggregates # {}

\* The pairs (modelName, predictionType) of the three named strategies.
NamedPairs ==
  { <<"lead_conversion_model", "conversion_probability">>,
    <<"customer_churn_model", "churn_probability">>,
    <<"project_cost_model", "cost_overrun_probability">> }

PairOf(a) == <<a.modelName, a.predictionType>>

\* The row of predictive_model_results with the id and the written columns
\* of prediction p.
Persisted(p) ==
  \E q \in predictive_model_results :
    q.id = p.id /\ KeyOf(q) = KeyOf(p) /\ Written(q) = Written(p)

\* The prediction of the generic strategy: a value in [0, 1], confidence 0.5.
Generic(p) ==
  /\ p.prediction_value \in 0..1000
  /\ p.confidence_score = 500
  /\ p.features_used = {"generic_features"}

\* The last call made was generatePrediction and it has settled.
PredictedLast(s) ==
  /\ result[s].op = "generatePrediction"
  /\ result[s].status # "none"
  /\ result[s].cid = callsStarted

\* C13: generatePrediction for a pair (modelName, predictionType) that is
\* none of the three named pairs, on an entity that exists, resolves when
\* no store operation fails, with a prediction of value in [0, 1] and
\* confidence 0.5 that is stored under its key.
C13_GenericStrategy ==
  \A s \in Slots :
    (/\ PredictedLast(s)
     /\ PairOf(result[s].arg) \notin NamedPairs
     /\ ~Missing(result[s].arg.entityType, result[s].arg.entityId)
     /\ failures = 0) =>
      /\ result[s].status = "resolved"
      /\ Generic(result[s].value)
      /\ Persisted(result[s].value)

\* C13 for the pairs whose joined text is not the text of a named pair.
C13_GenericStrategyOfOtherText ==
  \A s \in Slots :
    (/\ PredictedLast(s)
     /\ Strategy(result[s].arg.modelName, result[s].arg.predictionType) = "generic"
     /\ ~Missing(result[s].arg.entityType, result[s].arg.entityId)
     /\ failures = 0) =>
      /\ result[s].status = "resolved"
      /\ Generic(result[s].value)
      /\ Persisted(result[s].value)

\* The text the dispatcher switches on.
JoinedText(a) == a.modelName \o "_" \o a.predictionType

\* The last call made was generatePrediction, on the named strategy of kind
\* (lead, customer or project), and it resolved.
NamedLast(s, kind) ==
  /\ PredictedLast(s)
  /\ result[s].status = "resolved"
  /\ JoinedText(result[s].arg) =
       (CASE kind = "lead" -> "lead_conversion_model_conversion_probability"
          [] kind = "customer" -> "customer_churn_model_churn_probability"
          [] OTHER -> "project_cost_model_cost_overrun_probability")

AbsorbedFailure(s) == \E o \in result[s].ops : o[1] = "failed"

\* The prediction p is the one the named strategy of kind derives from the
\* rows its analytics table holds for the id (the first of them).
Derived(p, kind, rows) ==
  LET row == CHOOSE r \in rows : \A q \in rows : r.id <= q.id IN
  CASE kind = "lead" ->
         /\ p.prediction_value = row.conversion_probability
         /\ p.confidence_score = 800
         /\ p.features_used = {"lead_score", "acquisition_source", "service_interest"}
    [] kind = "customer" ->
         /\ p.prediction_value = row.churn_probability
         /\ p.confidence_score = 850
         /\ p.features_used = {"retention_score", "project_count", "lifetime_value",
                               "last_interaction_date"}
    [] OTHER ->
         /\ p.prediction_value = IF row.cost_variance_percent > 0 THEN 700 ELSE 300
         /\ p.confidence_score = 800
         /\ p.features_used = {"estimated_cost", "project_type", "historical_variance"}

\* The prediction p is the randomized estimate of the named strategy of kind.
Randomized(p, kind) ==
  CASE kind = "lead" ->
         /\ p.prediction_value \in 100..800
         /\ p.confidence_score = 600
         /\ p.features_used = {"basic_lead_info"}
    [] kind = "customer" ->
         /\ p.prediction_value \in 100..500
         /\ p.confidence_score = 600
         /\ p.features_used = {"basic_customer_info"}
    [] OTHER ->
         /\ p.prediction_value \in 200..700
         /\ p.confidence_score = 700
         /\ p.features_used = {"basic_project_info"}

\* The rows the analytics table of a kind holds for an id.
RowsOfKind(kind, id) ==
  CASE kind = "lead" -> {r \in lead_analytics : r.lead_id = id}
    [] kind = "customer" -> {r \in customer_analytics : r.customer_id = id}
    [] OTHER -> {r \in project_analytics : r.project_id = id}

Kinds == {"lead", "customer", "project"}

EqualsIgnoringCase(str, word) ==
  /\ Len(str) = Len(word)
  /\ \A i \in 1..Len(str) : LowerChar(str[i]) = word[i]

ContainsIgnoringCase(str, word) ==
  \E k \in 0..(Len(str) - Len(word)) :
    \A i \in 1..Len(word) : LowerChar(str[k + i]) = word[i]

\* The last call made was a call of reconciler op and it resolved.
ScoredLast(s, op) == ReconciledLast(s) /\ result[s].op = op

SourceBonusByRule(source) ==
  IF EqualsIgnoringCase(source, Literals.referral) THEN 20
  ELSE IF EqualsIgnoringCase(source, Literals.website) THEN 15
  ELSE IF EqualsIgnoringCase(source, Literals.google) THEN 10
  ELSE IF EqualsIgnoringCase(source, Literals.facebook) THEN 5
  ELSE 0

InterestBonusByRule(interest) ==
  IF ContainsIgnoringCase(interest, Literals.roof_replacement) THEN 15
  ELSE IF ContainsIgnoringCase(interest, Literals.repair) THEN 10
  ELSE IF ContainsIgnoringCase(interest, Literals.inspection) THEN 5
  ELSE 0

LeadScoreByRule(lead) ==
  Min({100, Max({0, 50 + SourceBonusByRule(lead.source)
                      + InterestBonusByRule(lead.service_interest)})})

\* C15: after a processLeadData call for a lead has resolved, the lead's row
\* of lead_analytics holds lead_score = 50 + source bonus (referral 20,
\* website 15, google 10, facebook 5, otherwise 0, whatever the letter case)
\* + interest bonus (the first of: contains 'roof replacement' 15, contains
\* 'repair' 10, contains 'inspection' 5, otherwise 0), within [0, 100], and
\* conversion_probability = lead_score / 100 * 0.8 (in thousandths:
\* lead_score * 8).
C15_LeadScore ==
  \A s \in Slots :
    ScoredLast(s, "processLeadData") =>
      LET lead == result[s].arg
          mine == {q \in lead_analytics : q.lead_id = lead.id}
      IN /\ mine # {}
         /\ \A q \in mine :
              /\ q.lead_score = LeadScoreByRule(lead)
              /\ q.lead_score \in 0..100
              /\ q.conversion_probability * 100 = q.lead_score * 800

\* A lead of source 'WEBSITE' whose interest holds both 'roof replacement'
\* and 'repair' has been scored over a sample row: 50 + 15 + 15.
C15_Witness ==
  \E s \in Slots :
    /\ ScoredLast(s, "processLeadData")
    /\ ~Unseeded
    /\ result[s].arg.source = ScoreText.WEBSITE
    /\ result[s].arg.service_interest = ScoreText.Replacement_or_Repair
    /\ \E q \in lead_analytics :
         q.lead_id = result[s].arg.id /\ q.lead_score = 80 /\ q.conversion_probability = 640

MultiplierByRule(event_type) ==
  IF EqualsIgnoringCase(event_type, Literals.hail_storm) THEN 5
  ELSE IF EqualsIgnoringCase(event_type, Literals.tornado) THEN 8
  ELSE IF EqualsIgnoringCase(event_type, Literals.hurricane) THEN 10
  ELSE IF EqualsIgnoringCase(event_type, Literals.wind_storm) THEN 4
  ELSE IF EqualsIgnoringCase(event_type, Literals.heavy_rain) THEN 2
  ELSE 3

\* floor(a * b / 10) of naturals a and b.
FloorOfTenths(a, b) == CHOOSE n \in 0..(a * b) : 10 * n <= a * b /\ a * b < 10 * (n + 1)

\* C16: after a processWeatherEventData call for an event has resolved, the
\* event's row of weather_impact_analytics holds leads_generated =
\* floor(severity * m), m being 5, 8, 10, 4, 2 for the event types 'hail
\* storm', 'tornado', 'hurricane', 'wind storm', 'heavy rain' in any letter
\* case and 3 for any other or missing type, projects_created =
\* floor(leads_generated * 0.4) and revenue_impact = projects_created * 8500;
\* a Hail Storm of severity 4.2 gets 21, 8 and 68000.
C16_WeatherImpact ==
  \A s \in Slots :
    ScoredLast(s, "processWeatherEventData") =>
      LET weatherEvent == result[s].arg
          mine == {q \in weather_impact_analytics : q.weather_event_id = weatherEvent.id}
      IN /\ mine # {}
         /\ \A q \in mine :
              /\ q.leads_generated =
                   FloorOfTenths(weatherEvent.severity, MultiplierByRule(weatherEvent.event_type))
              /\ q.projects_created = FloorOfTenths(q.leads_generated, 4)
              /\ q.revenue_impact = q.projects_created * 8500
              /\ (weatherEvent.event_type = SampleText.Hail_Storm /\ weatherEvent.severity = 42)
                   => (q.leads_generated = 21 /\ q.projects_created = 8
                       /\ q.revenue_impact = 68000)

\* A Hail Storm of severity 4.2 has been reconciled over a sample row.
C16_Witness ==
  \E s \in Slots :
    /\ ScoredLast(s, "processWeatherEventData")
    /\ ~Unseeded
    /\ result[s].arg.event_type = SampleText.Hail_Storm
    /\ result[s].arg.severity = 42
    /\ \E q \in weather_impact_analytics :
         q.weather_event_id = result[s].arg.id /\ q.leads_generated = 21

\* The sum of the contract amounts of a set of projects, a missing amount
\* counting as 0.
RECURSIVE ContractTotal(_)
ContractTotal(S) ==
  IF S = {} THEN 0
  ELSE LET p == CHOOSE x \in S : TRUE
       IN (IF p.contract_amount = NULL THEN 0 ELSE p.contract_amount) + ContractTotal(S \ {p})

\* C17: after a processCustomerData call for a customer has resolved, the
\* customer's row of customer_analytics holds project_count = the number of
\* the customer's projects, average_project_value = the sum of their
\* contract amounts / project_count (0 without projects) and lifetime_value
\* = average_project_value * project_count * 1.3; without projects all
\* three are 0.
C17_CustomerValue ==
  \A s \in Slots :
    ScoredLast(s, "processCustomerData") =>
      LET customer == result[s].arg
          theirs == {p \in projects : p.customer_id = customer.id}
          mine == {q \in customer_analytics : q.customer_id = customer.id}
      IN /\ mine # {}
         /\ \A q \in mine :
              /\ q.project_count = Cardinality(theirs)
              /\ q.average_project_value * q.project_count = ContractTotal(theirs)
              /\ q.lifetime_value * 10 = q.average_project_value * q.project_count * 13
              /\ theirs = {} => (q.project_count = 0 /\ q.average_project_value = 0
                                 /\ q.lifetime_value = 0)

\* Customer 2 has two projects, one of them without a contract amount, and
\* has been reconciled: 2 projects, 500 on average, 1300 in all.
C17_Witness ==
  \E s \in Slots :
    /\ ScoredLast(s, "processCustomerData")
    /\ result[s].arg.id = 2
    /\ \E p \in projects : p.customer_id = 2 /\ p.contract_amount = NULL
    /\ \E q \in customer_analytics :
         /\ q.customer_id = 2
         /\ q.project_count = 2
         /\ q.average_project_value = 500
         /\ q.lifetime_value = 1300

DurationByRule(project_type) ==
  IF ContainsIgnoringCase(project_type, Literals.replacement) THEN 21
  ELSE IF ContainsIgnoringCase(project_type, Literals.repair) THEN 7
  ELSE 14

\* C18: after a processProjectData call for a project has resolved, the
\* project's row of project_analytics holds estimated_cost = contract_amount
\* * 0.6 and estimated_duration = 21 when project_type contains
\* 'replacement' in any letter case, else 7 when it contains 'repair', else
\* 14, also without a project_type; 12500 and 'Roof Replacement' get 7500
\* and 21.
C18_ProjectEstimate ==
  \A s \in Slots :
    ScoredLast(s, "processProjectData") =>
      LET project == result[s].arg
          mine == {q \in project_analytics : q.project_id = project.id}
      IN /\ mine # {}
         /\ \A q \in mine :
              /\ project.contract_amount # NULL
                   => q.estimated_cost * 10 = project.contract_amount * 6
              /\ q.estimated_duration = DurationByRule(project.project_type)
              /\ project.project_type = <<>> => q.estimated_duration = 14
              /\ (project.contract_amount = 12500
                  /\ project.project_type = SampleText.Roof_Replacement)
                   => (q.estimated_cost = 7500 /\ q.estimated_duration = 21)

\* A project of type 'Repair then Replacement' has been reconciled over a
\* sample row: 21 days.
C18_Witness ==
  \E s \in Slots :
    /\ ScoredLast(s, "processProjectData")
    /\ ~Unseeded
    /\ result[s].arg.project_type = ScoreText.Repair_then_Replacement
    /\ result[s].arg.contract_amount = 12500
    /\ \E q \in project_analytics :
         q.project_id = result[s].arg.id /\ q.estimated_cost = 7500
           /\ q.estimated_duration = 21

\* ----------------------------------------------------------- dashboard
DashboardDone(s) ==
  result[s].op = "getDashboardMetrics" /\ result[s].status = "resolved"

BaseFields ==
  {"leadConversionRate", "avgProfitMargin", "avgCustomerLTV", "weatherImpact", "recentMetrics"}

AdminOrManager(role) == role \in {"admin", "manager"}

RevenueQueried(ops) == \E o \in ops : o[2] = "revenueByMonth"

\* C19: the metrics getDashboardMetrics returns have the field
\* revenueByMonth exactly when role is 'admin' or 'manager'; for any other
\* role the revenue-by-month query is not issued at any point of the call;
\* the five other fields are there for every role, and two calls made for
\* whatever roles over the same rows return the same value in each of them
\* (a field whose query failed in one of the calls aside).
C19_RevenueByRole ==
  /\ \A s \in Slots :
       (call[s].op = "getDashboardMetrics" /\ ~AdminOrManager(call[s].arg.role))
         => ~RevenueQueried(call[s].ops)
  /\ \A s \in Slots :
       DashboardDone(s) =>
         /\ "revenueByMonth" \in DOMAIN result[s].value.metrics
              <=> AdminOrManager(result[s].arg.role)
         /\ RevenueQueried(result[s].ops) <=> AdminOrManager(result[s].arg.role)
         /\ BaseFields \subseteq DOMAIN result[s].value.metrics
  /\ \A s, t \in Slots :
       (DashboardDone(s) /\ DashboardDone(t)) =>
         \A f \in BaseFields :
           (<<"failed", f>> \notin result[s].ops \cup result[t].ops)
             => result[s].value.metrics[f] = result[t].value.metrics[f]

\* Over the sample data, an admin and a sales user have got their
\* dashboards without a failure: the admin's has the revenue of three months,
\* the sales user's has no such field, and both have the recent metrics.
C19_Witness ==
  \E s, t \in Slots :
    /\ DashboardDone(s) /\ DashboardDone(t)
    /\ ~Unseeded
    /\ result[s].arg.role = "admin" /\ result[t].arg.role = "sales"
    /\ \A o \in result[s].ops \cup result[t].ops : o[1] # "failed"
    /\ Len(result[s].value.metrics["revenueByMonth"]) = 3
    /\ "revenueByMonth" \notin DOMAIN result[t].value.metrics
    /\ Len(result[t].value.metrics["recentMetrics"]) = 10
    /\ result[t].value.metrics["avgCustomerLTV"] > 0

\* ------------------------------------------------------------ insights
\* The stored predictions a returned row stands for.
StoredFor(row) ==
  {q \in predictive_model_results :
     /\ q.model_name = row.model_name /\ q.entity_type = row.entity_type
     /\ q.entity_id = row.entity_id /\ q.prediction_type = row.prediction_type
     /\ q.prediction_date = row.prediction_date
     /\ q.prediction_value = row.prediction_value}

\* The rows of the getPredictiveInsights call of slot s that resolves in
\* this step.
InsightsOf(s) ==
  IF Resolves(s, "getPredictiveInsights") THEN result'[s].value.rows ELSE <<>>

\* C20: getPredictiveInsights returns a stored prediction only while the
\* current time is before its expiration_date: no row it resolves with is
\* of a prediction whose expiration_date is the current time or earlier.
C20_NeverExpired ==
  [][\A s \in Slots :
       \A i \in 1..Len(InsightsOf(s)) :
         /\ StoredFor(InsightsOf(s)[i]) # {}
         /\ \A q \in StoredFor(InsightsOf(s)[i]) : now < q.expiration_date]_vars

\* C20, the part on savePrediction: the prediction a generatePrediction call
\* resolves with is stored with prediction_date = the time of the call and
\* expiration_date = that time + 30 days.
C20_SavedForThirtyDays ==
  [][\A s \in Slots :
       Resolves(s, "generatePrediction") =>
         \E q \in predictive_model_results' :
           /\ q.id = result'[s].value.id
           /\ q.prediction_date = now
           /\ q.expiration_date = now + 30]_vars

\* C20, what holds of the rows returned: they are 100 at most, in
\* descending order of prediction_date, every prediction that expires
\* later than now is among them, and none of them expired on a day before
\* the current one.
C20_InsightsUntilExpirationDay ==
  [][\A s \in Slots :
       Resolves(s, "getPredictiveInsights") =>
         LET rows == InsightsOf(s) IN
         /\ Len(rows) <= 100
         /\ \A i, j \in 1..Len(rows) :
              i < j => rows[i].prediction_date >= rows[j].prediction_date
         /\ \A i \in 1..Len(rows) :
              \E q \in StoredFor(rows[i]) : now <= q.expiration_date
         /\ \A q \in predictive_model_results :
              now < q.expiration_date => \E i \in 1..Len(rows) : q \in StoredFor(rows[i])]_vars

\* ------------------------------------------------------------ dispatch
AnalyticsTables == {"lead_analytics", "customer_analytics", "project_analytics"}

\* The features a named strategy reports, derived or randomized.
NamedFeatures ==
  { {"lead_score", "acquisition_source", "service_interest"}, {"basic_lead_info"},
    {"retention_score", "project_count", "lifetime_value", "last_interaction_date"},
    {"basic_customer_info"},
    {"estimated_cost", "project_type", "historical_variance"}, {"basic_project_info"} }

\* C21: generatePrediction takes a named strategy exactly when the pair
\* (modelName, predictionType) is one of the three named pairs: a call for
\* any other pair reads no analytics table and resolves with the generic
\* features, and a call for a named pair resolves with the features of a
\* named strategy.
C21_ExactPair ==
  \A s \in Slots :
    (PredictedLast(s) /\ result[s].status = "resolved") =>
      IF PairOf(result[s].arg) \in NamedPairs
      THEN result[s].value.features_used \in NamedFeatures
      ELSE /\ result[s].value.features_used = {"generic_features"}
           /\ \A o \in result[s].ops : o[2] \notin AnalyticsTables

\* C21 with the pairs told apart by their joined text.
C21_ExactJoinedText ==
  \A s \in Slots :
    (PredictedLast(s) /\ result[s].status = "resolved") =>
      IF \E pair \in NamedPairs : JoinedText(result[s].arg) = pair[1] \o "_" \o pair[2]
      THEN result[s].value.features_used \in NamedFeatures
      ELSE /\ result[s].value.features_used = {"generic_features"}
           /\ \A o \in result[s].ops : o[2] \notin AnalyticsTables

\* The analytics table of the rows of an entity type.
AnalyticsTableOf(entityType) == entityType \o "_analytics"

\* C27: the analytics table a generatePrediction call reads is the one of
\* the entity type it looked the entity up in: a call with entityType
\* 'customer' reads no lead_analytics row, whatever the pair.
C27_AnalyticsOfLookedUpEntity ==
  \A s \in Slots :
    PredictedLast(s) =>
      \A o \in result[s].ops :
        o[2] \in AnalyticsTables => o[2] = AnalyticsTableOf(result[s].arg.entityType)

\* C27 for the calls whose pair is the named pair of their entity type.
C27_AnalyticsOfOwnPair ==
  \A s \in Slots :
    (/\ PredictedLast(s)
     /\ Strategy(result[s].arg.modelName, result[s].arg.predictionType)
          \in {AnalyticsTableOf(result[s].arg.entityType), "generic"}) =>
      \A o \in result[s].ops :
        o[2] \in AnalyticsTables => o[2] = AnalyticsTableOf(result[s].arg.entityType)

\* ------------------------------------------------------ predictions of a run
\* A processAllData run has returned and no store operation has failed.
RunDone(s) ==
  /\ result[s].op = "processAllData"
  /\ result[s].status = "resolved"
  /\ failures = 0

\* The stored predictions of a model for an entity.
PredictionsFor(modelName, entityType, entityId) ==
  {p \in predictive_model_results :
     p.model_name = modelName /\ p.entity_type = entityType /\ p.entity_id = entityId}

\* C26: after a processAllData run that returned without a store error,
\* every lead has a lead-conversion prediction, every customer a churn
\* prediction and every project a cost-overrun prediction (the tables hold
\* fewer rows than the run predicts for), and each of these predictions was
\* derived from the analytics row the run stored before: confidence 0.8 and
\* the lead's conversion_probability, confidence 0.85 and the customer's
\* churn_probability, confidence 0.8 and 0.7 or 0.3 by the sign of the
\* project's cost variance.
C26_NoFallbackInRun ==
  \A s \in Slots :
    RunDone(s) =>
      /\ \A l \in leads :
           /\ PredictionsFor("lead_conversion_model", "lead", l.id) # {}
           /\ \A p \in PredictionsFor("lead_conversion_model", "lead", l.id) :
                /\ p.confidence_score = 800
                /\ \E a \in lead_analytics :
                     a.lead_id = l.id /\ a.conversion_probability = p.prediction_value
      /\ \A c \in customers :
           /\ PredictionsFor("customer_churn_model", "customer", c.id) # {}
           /\ \A p \in PredictionsFor("customer_churn_model", "customer", c.id) :
                /\ p.confidence_score = 850
                /\ \E a \in customer_analytics :
                     a.customer_id = c.id /\ a.churn_probability = p.prediction_value
      /\ \A j \in projects :
           /\ PredictionsFor("project_cost_model", "project", j.id) # {}
           /\ \A p \in PredictionsFor("project_cost_model", "project", j.id) :
                /\ p.confidence_score = 800
                /\ \E a \in project_analytics :
                     /\ a.project_id = j.id
                     /\ p.prediction_value = IF a.cost_variance_percent > 0 THEN 700 ELSE 300

\* A run over the sample data has returned without a store error, and the
\* prediction of lead 2 holds the probability the run computed for it
\* (score 60, probability 0.48).
C26_Witness ==
  \E s \in Slots :
    /\ RunDone(s)
    /\ ~Unseeded
    /\ \E p \in PredictionsFor("lead_conversion_model", "lead", 2) :
         p.confidence_score = 800 /\ p.prediction_value = 480
    /\ PredictionsFor("project_cost_model", "project", 2) # {}

\* ------------------------------------------------- durations and variances
\* The projects with both dates.
Dated(project) == project.start_date # NULL /\ project.end_date # NULL

\* The variance (actual - estimated) / estimated of a stored row, in
\* thousandths.
VarianceByRule(actual, estimated) == ((actual - estimated) * 1000) \div estimated

\* The stored variances of a project_analytics row follow from its stored
\* costs and durations.
VariancesStored(q) ==
  /\ q.estimated_cost # 0
       => q.cost_variance_percent = VarianceByRule(q.actual_cost, q.estimated_cost)
  /\ q.duration_variance_percent = VarianceByRule(q.actual_duration, q.estimated_duration)

\* C25, as stated: after a processProjectData call has resolved, the
\* project's row holds actual_duration = end_date - start_date in days when
\* the project has both dates and estimated_duration otherwise, and its
\* variances are (actual - estimated) / estimated of its costs and durations.
C25_SignedDuration ==
  \A s \in Slots :
    ScoredLast(s, "processProjectData") =>
      LET project == result[s].arg IN
      \A q \in {r \in project_analytics : r.project_id = project.id} :
        /\ q.actual_duration = IF Dated(project) THEN project.end_date - project.start_date
                               ELSE q.estimated_duration
        /\ VariancesStored(q)

\* C25, amended: after a processProjectData call has resolved, the project's
\* row holds actual_duration = |end_date - start_date| in days when the
\* project has both dates, whichever of the two is the later one, and
\* estimated_duration otherwise, and its variances are (actual - estimated) /
\* estimated of its costs and durations.
C25_AbsoluteDuration ==
  \A s \in Slots :
    ScoredLast(s, "processProjectData") =>
      LET project == result[s].arg
          mine == {r \in project_analytics : r.project_id = project.id}
      IN /\ mine # {}
         /\ \A q \in mine :
              /\ q.actual_duration =
                   IF Dated(project)
                   THEN (IF project.end_date < project.start_date
                         THEN project.start_date - project.end_date
                         ELSE project.end_date - project.start_date)
                   ELSE q.estimated_duration
              /\ VariancesStored(q)

\* A repair that ends ten days before it starts has been reconciled: its
\* actual duration is 10 days against 7 estimated, a variance of 3/7.
C25_Witness ==
  \E s \in Slots :
    /\ ScoredLast(s, "processProjectData")
    /\ result[s].arg.start_date = 160
    /\ result[s].arg.end_date = 150
    /\ \E q \in project_analytics :
         /\ q.project_id = result[s].arg.id
         /\ q.actual_duration = 10
         /\ q.estimated_duration = 7
         /\ q.duration_variance_percent = 428

\* ----------------------------------------------- a failed bucket insert
\* The call of slot s is rejected in this step.
Rejects(s, op) == Settles(s) /\ result'[s].status = "rejected" /\ result'[s].op = op

\* C28: a generateTimeBasedAggregates call that is rejected because one of
\* its bucket inserts failed takes nothing back and cancels nothing: the
\* step that rejects it leaves every row of time_based_aggregates in place
\* and every other insert of the call pending, and every pending insert that
\* the store completes without an error adds its row, also when the call
\* that issued it has been rejected before.
C28_NoRollback ==
  [][/\ \A s \in Slots :
          (Rejects(s, "generateTimeBasedAggregates") /\ call[s].pc = "aggregates_insert") =>
            /\ time_based_aggregates' = time_based_aggregates
            /\ Cardinality({p \in pending' : p.cid = call[s].cid})
                 = Cardinality({p \in pending : p.cid = call[s].cid}) - 1
     /\ \A p \in pending \ pending' :
          failures' = failures =>
            \E r \in time_based_aggregates' \ time_based_aggregates :
              /\ r.metric_name = p.aggregate.metric_name
              /\ r.aggregation_level = p.aggregate.aggregation_level
              /\ r.period_start = p.aggregate.period_start
              /\ r.value = p.aggregate.value]_vars

\* The only call made so far is a generateTimeBasedAggregates call that was
\* rejected for a failed insert, and time_based_aggregates, empty before it,
\* holds rows of its metric and level.
C28_Witness ==
  \E s \in Slots :
    /\ callsStarted = 1
    /\ result[s].op = "generateTimeBasedAggregates"
    /\ result[s].status = "rejected"
    /\ result[s].error = "store_error"
    /\ result[s].cid = 1
    /\ pending = {}
    /\ time_based_aggregates # {}
    /\ \A r \in time_based_aggregates :
         /\ r.metric_name = result[s].arg.metricName
         /\ r.aggregation_level = result[s].arg.aggregationLevel

\* ------------------------------------------------------ calendar periods
\* The calendar period of a date at an aggregation level: the day, the week
\* from Monday to Sunday, the month, the quarter or the year.
CalendarPeriod(aggregationLevel, date) ==
  CASE aggregationLevel = "daily" -> <<date>>
    [] aggregationLevel = "weekly" -> <<(date + 2) \div 7>>
    [] aggregationLevel = "monthly" -> <<YearOf(date), MonthOf(date)>>
    [] aggregationLevel = "quarterly" -> <<YearOf(date), (MonthOf(date) - 1) \div 3 + 1>>
    [] aggregationLevel = "yearly" -> <<YearOf(date)>>

\* The rows a call returns are the rows of the calendar periods of its
\* source rows at its level: one row per period, with the value of the
\* source rows of the period.
PerCalendarPeriod(a, stored) ==
  LET rows == SourceRows(a.metricName)
      periods == {CalendarPeriod(a.aggregationLevel, r.date) : r \in rows}
      Group(k) == {r \in rows : CalendarPeriod(a.aggregationLevel, r.date) = k}
  IN /\ Len(stored) = Cardinality(periods)
     /\ \A k \in periods :
          \E i \in 1..Len(stored) :
            /\ stored[i].period_start = Min({r.start : r \in Group(k)})
            /\ stored[i].period_end = Max({r.end : r \in Group(k)})
            /\ stored[i].value = GroupValue(a.metricName, Group(k))

\* C24: a generateTimeBasedAggregates call that resolves without a store
\* error returns, at each of the five levels, one row per calendar day,
\* week, month, quarter or year that holds a source row of the metric, with
\* the SUM, COUNT, converted share or average of the source rows of that
\* period.
C24_CalendarBuckets ==
  [][\A s \in Slots :
       (Resolves(s, "generateTimeBasedAggregates") /\ failures' = 0) =>
         PerCalendarPeriod(call[s].arg, result'[s].value)]_vars

\* The same for the daily, weekly, monthly and yearly levels, for source
\* rows of one year.
C24_OtherLevels ==
  [][\A s \in Slots :
       (/\ Resolves(s, "generateTimeBasedAggregates")
        /\ failures' = 0
        /\ call[s].arg.aggregationLevel # "quarterly") =>
         PerCalendarPeriod(call[s].arg, result'[s].value)]_vars

\* A quarterly call never returns more than one row: all its source rows
\* are in one bucket, whatever their quarters.
C24_QuarterlyOneBucket ==
  \A s \in Slots :
    (/\ result[s].op = "generateTimeBasedAggregates"
     /\ result[s].status = "resolved"
     /\ result[s].arg.aggregationLevel = "quarterly") => Len(result[s].value) <= 1

\* A quarterly revenue call over the sample metrics of June (second quarter),
\* July and August (third quarter) has returned one row, of 650000.
C24_QuarterlyWitness ==
  \E s \in Slots :
    /\ result[s].op = "generateTimeBasedAggregates"
    /\ result[s].status = "resolved"
    /\ result[s].arg = [metricName |-> "revenue", aggregationLevel |-> "quarterly"]
    /\ Len(result[s].value) = 1
    /\ result[s].value[1].value = 650000

\* --------------------------------------------- store operations in flight
\* A processAllData run is in progress in slot s.
Running(s) == call[s].op = "processAllData"

\* C22, as stated: while processAllData runs, at most one store operation is
\* in flight: the one the run awaits, or one bucket insert.
C22_OneInFlight ==
  \A s \in Slots :
    Running(s) =>
      /\ Cardinality(pending) <= 1
      /\ pending # {} => call[s].pc = "aggregates_insert"

\* C22, amended: while processAllData runs, nothing else runs, and the only
\* store operations in flight are the one operation the run awaits or,
\* while it awaits the inserts of one generateTimeBasedAggregates call, the
\* bucket inserts of that call, which are in flight together: no bucket
\* insert is in flight while the run awaits anything else, so every insert
\* of a call has completed before the next operation is issued.
C22_OneInFlightButBuckets ==
  \A s \in Slots :
    Running(s) =>
      /\ \A t \in Slots \ {s} : call[t].op = "idle"
      /\ call[s].pc # "aggregates_insert" => pending = {}
      /\ call[s].pc = "aggregates_insert" =>
           /\ pending # {}
           /\ \A p \in pending :
                /\ p.cid = call[s].cid
                /\ p.aggregate.metric_name = call[s].arg.metricName
                /\ p.aggregate.aggregation_level = call[s].arg.aggregationLevel

\* The run awaits the inserts of the monthly revenue of the sample metrics:
\* the inserts of June, July and August are in flight together.
C22_Witness ==
  \E s \in Slots :
    /\ Running(s)
    /\ call[s].pc = "aggregates_insert"
    /\ call[s].arg.metricName = "revenue"
    /\ Cardinality(pending) = 3

\* ------------------------------------------------------- overlapping calls
\* The call of slot s has resolved as a call of op.
Returned(s, op) == result[s].op = op /\ result[s].status = "resolved"

\* The rows of lead_analytics of a lead.
RowsOfLead(T, leadId) == {r \in T : r.lead_id = leadId}

\* C23: a processLeadData call that found no row and inserted returns the
\* id of a row of its lead that is in lead_analytics, and a generatePrediction
\* call returns the id of a stored prediction of its key, whatever another
\* call does meanwhile; so when two overlapping calls for one lead have both
\* inserted, their ids differ and lead_analytics holds two rows for the one
\* lead: nothing in the store or in the code keeps the second insert out.
C23_BothInsertsStored ==
  /\ \A s \in Slots :
       (Returned(s, "processLeadData") /\ result[s].value.id # NULL) =>
         \E r \in RowsOfLead(lead_analytics, result[s].arg.id) : r.id = result[s].value.id
  /\ \A s \in Slots :
       Returned(s, "generatePrediction") =>
         \E p \in predictive_model_results :
           /\ p.id = result[s].value.id
           /\ p.model_name = result[s].arg.modelName
           /\ p.entity_type = result[s].arg.entityType
           /\ p.entity_id = result[s].arg.entityId
           /\ p.prediction_type = result[s].arg.predictionType
  /\ \A s, t \in Slots :
       (/\ s # t
        /\ Returned(s, "processLeadData") /\ Returned(t, "processLeadData")
        /\ result[s].arg.id = result[t].arg.id
        /\ result[s].value.id # NULL /\ result[t].value.id # NULL) =>
         /\ result[s].value.id # result[t].value.id
         /\ Cardinality(RowsOfLead(lead_analytics, result[s].arg.id)) >= 2

\* Two overlapping processLeadData calls for lead 1 over an empty table have
\* both found no row and both inserted: the lead has two rows.
C23_Witness ==
  /\ Unseeded
  /\ \A s \in Slots : Returned(s, "processLeadData") /\ result[s].arg.id = 1
  /\ result[1].value.id # NULL /\ result[2].value.id # NULL
  /\ Cardinality(RowsOfLead(lead_analytics, 1)) = 2

\* Two overlapping generatePrediction calls for one key over an empty table
\* have both saved: the key has two rows.
C23_PredictionWitness ==
  /\ Unseeded
  /\ \A s \in Slots : Returned(s, "generatePrediction")
  /\ Cardinality({p \in predictive_model_results :
                    /\ p.model_name = "lead_conversion_model" /\ p.entity_type = "lead"
                    /\ p.entity_id = 1 /\ p.prediction_type = "conversion_probability"}) = 2

\* ------------------------------------------------- rows kept by an update
\* The call of slot s, which found a row of its entity, completes its UPDATE
\* in this step.
Updates(s, pc) ==
  /\ call[s].pc = pc
  /\ call[s].loc.row # NULL
  /\ Settles(s)
  /\ result'[s].status = "resolved"

\* Two states of a table with the same rows by id.
SameIds(T, Tn) == {r.id : r \in T} = {r.id : r \in Tn} /\ Cardinality(T) = Cardinality(Tn)

\* C29: the UPDATE of a reconcile call that found a row of its entity leaves
\* the table with the rows it had, by id: it inserts none, removes none and
\* merges none, however many rows the entity has, and every row of the
\* entity holds the computed fields of the call afterwards.
C29_UpdateKeepsRows ==
  [][\A s \in Slots :
       /\ Updates(s, "lead_write") =>
            /\ SameIds(lead_analytics, lead_analytics')
            /\ \A r \in lead_analytics' :
                 r.lead_id = call[s].arg.id =>
                   /\ r.lead_score = call[s].loc.analytics.lead_score
                   /\ r.conversion_probability = call[s].loc.analytics.conversion_probability
       /\ Updates(s, "project_write") =>
            /\ SameIds(project_analytics, project_analytics')
            /\ \A r \in project_analytics' :
                 r.project_id = call[s].arg.id =>
                   /\ r.estimated_cost = call[s].loc.analytics.estimated_cost
                   /\ r.actual_cost = call[s].loc.analytics.actual_cost
       /\ Updates(s, "customer_write") =>
            /\ SameIds(customer_analytics, customer_analytics')
            /\ \A r \in customer_analytics' :
                 r.customer_id = call[s].arg.id =>
                   /\ r.lifetime_value = call[s].loc.analytics.lifetime_value
                   /\ r.retention_score = call[s].loc.analytics.retention_score
       /\ Updates(s, "weather_write") =>
            /\ SameIds(weather_impact_analytics, weather_impact_analytics')
            /\ \A r \in weather_impact_analytics' :
                 r.weather_event_id = call[s].arg.id =>
                   /\ r.leads_generated = call[s].loc.analytics.leads_generated
                   /\ r.revenue_impact = call[s].loc.analytics.revenue_impact]_vars

\* Customer 1 had two rows, the reconciled one and the sample one; a
\* processCustomerData call has updated them: there are two rows still, with
\* one lifetime value, and the second has kept its sample id.
C29_Witness ==
  \E s \in Slots :
    /\ ~Unseeded
    /\ Returned(s, "processCustomerData")
    /\ result[s].arg.id = 1
    /\ result[s].value.id = NULL
    /\ Cardinality({r \in customer_analytics : r.customer_id = 1}) = 2
    /\ \A r \in customer_analytics :
         r.customer_id = 1 => r.lifetime_value = result[s].value.lifetime_value

\* ------------------------------------------------------ default dashboards
\* The default dashboards of a user.
DefaultsOf(userId) ==
  {r \in dashboard_configurations : r.user_id = userId /\ r.is_default = 1}

\* C30: whatever requests were made, and however their statements
\* interleave, no user has more than one dashboard_configurations row with
\* is_default set.
C30_OneDefault == \A userId \in 1..2 : Cardinality(DefaultsOf(userId)) <= 1

\* An UPDATE that the store executes without an error leaves its user with
\* no default at all, the row of its own request included when the store
\* took the INSERT first.
C30_ClearedByUpdate ==
  [][\A p \in pending \ pending' :
       failures' = failures =>
         \A r \in dashboard_configurations' : r.user_id = p.user_id => r.is_default = 0]_vars

\* Both requests of user 1 were answered 201 and no statement has failed: the
\* user has two default dashboards.
C30_TwoDefaults ==
  /\ failures = 0
  /\ pending = {}
  /\ \A s \in Slots : Returned(s, "postDashboardConfig") /\ result[s].arg.id = 1
  /\ Cardinality(DefaultsOf(1)) = 2

====
